---- MODULE Spec2Model ----
(***************************************************************************)
(* A model of the fleet orchestrator's coordination core:                  *)
(*   - the Agent Controller (role assignment, ship procurement, credit     *)
(*     reservations, era machine, executor spawning), specification Spec;  *)
(*   - the Logistic Task Manager's take_tasks / set_task_completed and     *)
(*     the per-ship logistics executor with its persisted schedule and     *)
(*     progress, specification SpecExec, and the start of the executor     *)
(*     from any persisted schedule, progress and cargo, specification      *)
(*     SpecRecon;                                                          *)
(*   - the pathfinder's edge and get_route, specification SpecRoute;       *)
(*   - the task generation's refresh reward and trade of a good,           *)
(*     specification SpecTasks, and its task list under the construction   *)
(*     of the jump gate, specification SpecTaskList;                       *)
(*   - take_tasks as a function of the task list, the tasks in progress,   *)
(*     the ship's configuration and the planner, specification SpecTake;   *)
(*   - try_buy_ship as a function of the fleet, specification SpecBuy;     *)
(*   - the ShipController's goto_waypoint, specification SpecGoto, and the *)
(*     order of transit check and requests in its actions, specification   *)
(*     SpecShip;                                                           *)
(*   - the exploration reservations of probes and explorers,               *)
(*     specification SpecReserve;                                          *)
(*   - refresh_ship_config at startup from any persisted assignments,      *)
(*     specification SpecRefresh, and the supervisor on a fleet that is    *)
(*     already there, under fair scheduling, specification FairSpawn;      *)
(*   - the callers of try_buy_ships and take_tasks at the two mutexes,     *)
(*     specification SpecLocks;                                            *)
(*   - the executors under fair scheduling, specification FairRecon;       *)
(*   - the event processor's worker on the event log tables,               *)
(*     specification SpecEvents.                                           *)
(* Every step is one stretch of code between two suspension points         *)
(* (.await on I/O, a lock or a timer).                                     *)
(***************************************************************************)
EXTENDS Integers, Sequences, FiniteSets, TLC

None == "none"

---------------------------------------------------------------------------
(* Bounds of the model                                                     *)
MaxShips == 4
MaxRestarts == 1
MaxTrades == 1
MaxCrashes == 1
MaxSpawn == 2
MaxDistance == 150
MaxDuration == 300

---------------------------------------------------------------------------
(* Program constants                                                       *)
EraThreshold == 800000
FuelReservation == 10000
JumpgateReservation == 500000
CreditsPerCargoUnit == 5000
CruiseNavModifier == 25
TwiceBurnNavModifier == 25

Eras == {"StartingSystem1", "StartingSystem2", "InterSystem1", "InterSystem2"}

\* AgentEra, in declaration order
EraRank(e) ==
    CASE e = "StartingSystem1" -> 1
      [] e = "StartingSystem2" -> 2
      [] e = "InterSystem1" -> 3
      [] e = "InterSystem2" -> 4

\* AgentState::default
DefaultEra == "StartingSystem1"

ShipIds == 1..MaxShips
Waypoints == {"W0", "W1", "W2"}
Procs == {"agent", "ctrl", "tm"}

InitCredits == {175000, 350000, 560000, 1010000}

\* what one cargo load costs, and what one refuel costs
GoodsValues == {100000}
FuelCosts == {1}
FuelSalePrices == {70}
FuelCargo == {0, 1}

\* SHIP_MODELS[model].cargo_capacity
CargoCapacity(model) ==
    CASE model = "CMD" -> 40
      [] model = "HAULER" -> 40
      [] OTHER -> 0

Role(id, model, beh, wps, never, cheapest, task) ==
    [id |-> id, ship_model |-> model, behaviour |-> beh, waypoints |-> wps,
     never_purchase |-> never, require_cheapest |-> cheapest,
     allow_logistic_task |-> task]

\* ship_config_starter_system(.., incl_outer_probes_and_siphons)
ship_config_starter_system(incl_outer) ==
    << Role("cmd", "CMD", "Logistics", <<>>, TRUE, FALSE, FALSE),
       Role("probe_w1", "PROBE", "Probe", <<"W1">>, FALSE, FALSE, FALSE),
       Role("hauler1", "HAULER", "Logistics", <<>>, FALSE, FALSE, TRUE) >>
    \o (IF incl_outer
        THEN << Role("hauler2", "HAULER", "Logistics", <<>>, FALSE, TRUE, FALSE),
                Role("siphon1", "SIPHON", "SiphonDrone", <<>>, FALSE, FALSE, FALSE) >>
        ELSE << >>)

RoleIds == {"cmd", "probe_w1", "hauler1", "hauler2", "siphon1"}

\* generate_ship_config: the eras it supports (the others panic)
EraSupported(e) == e \in {"StartingSystem1", "StartingSystem2"}

generate_ship_config(e) == ship_config_starter_system(e # "StartingSystem1")

\* universe.search_shipyards(system, model): (waypoint, price), unsorted
search_shipyards(model) ==
    CASE model = "PROBE" -> << <<"W1", 25000>> >>
      [] model = "HAULER" -> << <<"W2", 160000>>, <<"W1", 150000>> >>
      [] OTHER -> << >>

\* shipyards.sort_by_key(|x| x.1): stable insertion sort on the price
RECURSIVE InsertByPrice(_, _)
InsertByPrice(sorted, x) ==
    IF sorted = << >> THEN << x >>
    ELSE IF Head(sorted)[2] <= x[2]
         THEN << Head(sorted) >> \o InsertByPrice(Tail(sorted), x)
         ELSE << x >> \o sorted

RECURSIVE SortByPrice(_)
SortByPrice(yards) ==
    IF yards = << >> THEN << >>
    ELSE InsertByPrice(SortByPrice(SubSeq(yards, 1, Len(yards) - 1)), yards[Len(yards)])

---------------------------------------------------------------------------
VARIABLES
    era,                 \* AgentController.state.era
    db_era,              \* persisted "{callsign}/state" (None: never written)
    era_override,        \* CONFIG.era_override
    ships,               \* AgentController.ships: symbol -> [model, wp, transit]
    ship_config,         \* AgentController.ship_config
    job_assignments,     \* role id -> ship symbol (0: no entry)
    job_assignments_rev, \* ship symbol -> role id (None: no entry)
    db_assignments,      \* persisted "{callsign}/ship_assignments"
    ledger,              \* Ledger: credits, reservations, goods value held
    lock,                \* try_buy_ships_mutex_guard: its holder
    pc,                  \* position of the startup routine, controller loop, task manager
    tb,                  \* locals of the running try_buy_ships call
    ret,                 \* what try_buy_ships returned to each caller
    spawned,             \* per ship: executors started by spawn_run_ship
    jumpgate_finished,   \* is_jumpgate_finished()
    cargo,               \* per ship: goods on board bought by its executor
    trades,             \* trades so far (bounded)
    restarts,            \* process restarts so far (bounded)
    tm_ship,             \* the ship whose take_tasks runs the task manager's buy phase
    ctick,               \* the running controller tick: era evaluations and advances
    refreshed,           \* what the last completed refresh_ship_config read and left
    obs                  \* observation of what the last step did

acvars == << era, db_era, era_override, ships, ship_config, job_assignments,
             job_assignments_rev, db_assignments, ledger, lock, pc, tb, ret,
             spawned, jumpgate_finished, cargo, trades, restarts, tm_ship, ctick,
             refreshed, obs >>

\* task manager and logistics executors
VARIABLES
    in_progress,         \* LogisticTaskManager.in_progress_tasks: task id -> ship (0: no entry)
    db_in_progress,      \* persisted task manager state
    tt_lock,             \* take_tasks mutex: the ship whose take_tasks holds it (0: free)
    db_schedule,         \* persisted schedule of each ship: [some, actions]
    db_progress,         \* persisted schedule progress of each ship (-1: none)
    epc,                 \* where each logistics executor is
    sch,                 \* the schedule an executor works on
    idx,                 \* its action index
    skip,                \* actions_to_skip
    avail,               \* available_tasks of a take_tasks call
    hold,                \* units of the traded good in a ship's cargo
    fuel_hold,           \* units of FUEL in a ship's cargo
    exec_count,          \* executions of each action of the persisted schedule
    crashes,             \* process crashes so far (bounded)
    eobs                 \* what the last executor step did

evars == << in_progress, db_in_progress, tt_lock, db_schedule, db_progress, epc, sch, idx,
            skip, avail, hold, fuel_hold, exec_count, crashes, eobs >>

\* a call of a function of the pathfinder or of the task generation, and what it returns
VARIABLES
    args,                \* the function called and its arguments
    result,              \* what the call returned (kind "none": not called yet)
    nav                  \* the ship of a ShipController call: where it is, what it did

\* exploration reservations of the Agent Controller; the event processor and its store
VARIABLES
    rsv,                 \* reservation maps, their locks, the chart, each ship's position
    ep,                  \* event processor: broker, worker and tables
    lk                   \* the callers of try_buy_ships and take_tasks at the two mutexes

svars == << rsv, ep, lk >>
NoRsv == [status |-> "idle"]
NoEp == [status |-> "idle"]
NoLk == [status |-> "idle"]

pvars == << args, result, nav, svars >>

vars == << acvars, evars, pvars >>

NoResult == [kind |-> "none"]
NoNav == [status |-> "idle"]
NoServices == rsv = NoRsv /\ ep = NoEp /\ lk = NoLk
NoCall == args = [fn |-> "none"] /\ result = NoResult /\ nav = NoNav /\ NoServices

---------------------------------------------------------------------------
(* Ledger (credits, reservations per key, value of goods held per ship)    *)

\* Ledger::new(initial_credits)
LedgerNew(c) ==
    [credits |-> c, fuel |-> 0, gate |-> 0,
     ship |-> [s \in ShipIds |-> 0], held |-> [s \in ShipIds |-> 0]]

\* Ledger::set_credits
set_credits(l, c) == [l EXCEPT !.credits = c]

\* Ledger::reserve_credits(key, amount): overwrites the key's reservation
reserve_ship(l, s, amount) == [l EXCEPT !.ship[s] = amount]
reserve_fuel(l, amount) == [l EXCEPT !.fuel = amount]
reserve_gate(l, amount) == [l EXCEPT !.gate = amount]

\* Ledger::register_goods_change(ship, good, units, price)
register_goods_change(l, s, value) ==
    [l EXCEPT !.held[s] = IF @ + value < 0 THEN 0 ELSE @ + value]

Max0(x) == IF x < 0 THEN 0 ELSE x

RECURSIVE SumOver(_, _)
SumOver(f, S) ==
    IF S = {} THEN 0
    ELSE LET x == CHOOSE y \in S : TRUE IN f[x] + SumOver(f, S \ {x})

\* sum of the reservations as made
reserved_credits(l) == l.fuel + l.gate + SumOver(l.ship, ShipIds)

\* Ledger::effective_reserved_credits
effective_reserved_credits(l) ==
    l.fuel + l.gate
    + SumOver([s \in ShipIds |-> Max0(l.ship[s] - l.held[s])], ShipIds)

\* Ledger::available_credits
available_credits(l) == l.credits - effective_reserved_credits(l)

---------------------------------------------------------------------------
(* Agent Controller: helpers                                               *)

Min(S) == CHOOSE x \in S : \A y \in S : x <= y

\* CONFIG defaults (environment variables unset)
scrap_all_ships == FALSE
scrap_unassigned == FALSE

ConfigIds(cfg) == { cfg[i].id : i \in 1..Len(cfg) }

\* job_assigned / ship_assigned
job_assigned(ja, id) == ja[id] # 0
ship_assigned(rev, s) == rev[s] # None

NoAssignments == [r \in RoleIds |-> 0]
NoAssignmentsRev == [s \in ShipIds |-> None]

\* AgentController::new: the reverse map collected from the persisted map
ReverseMaps(ja) ==
    { f \in [ShipIds -> RoleIds \cup {None}] :
        \A s \in ShipIds :
            IF \E r \in RoleIds : ja[r] = s
            THEN f[s] # None /\ ja[f[s]] = s
            ELSE f[s] = None }

\* refresh_ship_config: the (job, ship) pairs whose job or ship is gone
keys_to_remove(cfg, ja, shipmap) ==
    { <<r, ja[r]>> : r \in { x \in RoleIds :
          ja[x] # 0 /\ (x \notin ConfigIds(cfg) \/ ja[x] \notin DOMAIN shipmap) } }

\* a removal that leaves the reverse map alone
RemoveAssignments_ForwardOnly(ja, rev, dead) ==
    [fwd |-> [r \in RoleIds |-> IF \E k \in dead : k[1] = r THEN 0 ELSE ja[r]],
     rev |-> rev]

\* refresh_ship_config: job_assignments.remove(job); job_assignments_rev.remove(ship)
RemoveAssignments(ja, rev, dead) ==
    [fwd |-> [r \in RoleIds |-> IF \E k \in dead : k[1] = r THEN 0 ELSE ja[r]],
     rev |-> [s \in ShipIds |-> IF \E k \in dead : k[2] = s THEN None ELSE rev[s]]]

\* the last unfilled role of the ship's model (0: none)
FindJob_Last(cfg, ja, model) ==
    LET I == { i \in 1..Len(cfg) : ~job_assigned(ja, cfg[i].id) /\ cfg[i].ship_model = model }
    IN IF I = {} THEN 0 ELSE CHOOSE i \in I : \A k \in I : k <= i

\* try_assign_ship: the first unfilled role of the ship's model (0: none)
FindJob(cfg, ja, model) ==
    LET I == { i \in 1..Len(cfg) : ~job_assigned(ja, cfg[i].id) /\ cfg[i].ship_model = model }
    IN IF I = {} THEN 0 ELSE Min(I)

\* an insert that leaves the reverse map alone
InsertAssignment_NoReverse(ja, rev, id, s) ==
    [fwd |-> [ja EXCEPT ![id] = s], rev |-> rev]

\* try_assign_ship: insert into job_assignments and job_assignments_rev
InsertAssignment(ja, rev, id, s) ==
    [fwd |-> [ja EXCEPT ![id] = s], rev |-> [rev EXCEPT ![s] = id]]

\* a reservation that is cut down to the credits at hand
reserve_credits_for_job_capped(l, job, s, shipmap) ==
    IF job.behaviour = "Logistics"
    THEN reserve_ship(l, s, Min({CargoCapacity(shipmap[s].model) * CreditsPerCargoUnit,
                                 Max0(l.credits)}))
    ELSE l

\* reserve_credits_for_job
reserve_credits_for_job(l, job, s, shipmap) ==
    IF job.behaviour = "Logistics"
    THEN reserve_ship(l, s, CargoCapacity(shipmap[s].model) * CreditsPerCargoUnit)
    ELSE l

\* try_assign_ship(s) as a transition of the maps, the persisted map and the ledger
try_assign_ship(s) ==
    LET j == FindJob(ship_config, job_assignments, ships[s].model) IN
    IF j = 0
    THEN UNCHANGED << job_assignments, job_assignments_rev, db_assignments, ledger >>
    ELSE LET m == InsertAssignment(job_assignments, job_assignments_rev, ship_config[j].id, s) IN
         /\ job_assignments' = m.fwd
         /\ job_assignments_rev' = m.rev
         /\ db_assignments' = m.fwd
         /\ ledger' = reserve_credits_for_job(ledger, ship_config[j], s, ships)

\* refresh_ship_config: the ledger refresh
RECURSIVE ReserveJobs(_, _, _, _, _)
ReserveJobs(l, cfg, i, ja, shipmap) ==
    IF i > Len(cfg) THEN l
    ELSE ReserveJobs(
            IF job_assigned(ja, cfg[i].id)
            THEN reserve_credits_for_job(l, cfg[i], ja[cfg[i].id], shipmap)
            ELSE l,
            cfg, i + 1, ja, shipmap)

\* a refresh that adds the fuel reservation to the one already made
RefreshLedgerOf_Accumulating(l, cfg, ja, shipmap, gate_done) ==
    LET l1 == reserve_fuel(l, l.fuel + FuelReservation)
        l2 == IF gate_done THEN reserve_gate(l1, JumpgateReservation) ELSE l1
    IN ReserveJobs(l2, cfg, 1, ja, shipmap)

RefreshLedgerOf(l, cfg, ja, shipmap, gate_done) ==
    LET l1 == reserve_fuel(l, FuelReservation)
        l2 == IF gate_done THEN reserve_gate(l1, JumpgateReservation) ELSE l1
    IN ReserveJobs(l2, cfg, 1, ja, shipmap)

\* the waypoints of the model lie in the starting system
InStartingSystem(w) == w \in Waypoints

\* statically_probed_waypoints: (ship, waypoint) of probes parked on their one waypoint,
\* and of construction haulers at rest outside the starting system
statically_probed_waypoints(cfg, ja, shipmap) ==
    { <<ja[cfg[i].id], cfg[i].waypoints[1]>> : i \in { k \in 1..Len(cfg) :
          /\ cfg[k].behaviour = "Probe"
          /\ Len(cfg[k].waypoints) = 1
          /\ job_assigned(ja, cfg[k].id)
          /\ ~shipmap[ja[cfg[k].id]].transit
          /\ shipmap[ja[cfg[k].id]].wp = cfg[k].waypoints[1] } }
    \cup
    { <<ja[cfg[i].id], shipmap[ja[cfg[i].id]].wp>> : i \in { k \in 1..Len(cfg) :
          /\ cfg[k].behaviour = "ConstructionHauler"
          /\ job_assigned(ja, cfg[k].id)
          /\ ~shipmap[ja[cfg[k].id]].transit
          /\ ~InStartingSystem(shipmap[ja[cfg[k].id]].wp) } }

\* any ship present at the shipyard and not in transit
Purchasers_AnyShip(yard, purchaser, cfg, ja, shipmap) ==
    { s \in DOMAIN shipmap : shipmap[s].wp = yard /\ ~shipmap[s].transit }

\* try_buy_ship: a ship present at the shipyard, not in transit, static probe or purchaser
\* (purchaser 0: the caller names none)
Purchasers(yard, purchaser, cfg, ja, shipmap) ==
    { s \in DOMAIN shipmap :
        /\ shipmap[s].wp = yard
        /\ ~shipmap[s].transit
        /\ \/ \E k \in statically_probed_waypoints(cfg, ja, shipmap) : k[1] = s
           \/ s = purchaser }

\* try_buy_ship: job_credit_reservation
job_credit_reservation(job) ==
    IF job.behaviour = "Logistics"
    THEN CargoCapacity(job.ship_model) * CreditsPerCargoUnit
    ELSE 0

\* a test of the listed price alone
CanAfford_PriceOnly(current_credits, cost, reservation) == current_credits >= cost

\* try_buy_ship: can the listed price and the job reservation be paid
CanAfford(current_credits, cost, reservation) == current_credits >= cost + reservation

\* try_buy_ship: the shipyard loop; the index of the shipyard to buy at (0: none)
RECURSIVE ShipyardLoop(_, _, _, _, _, _, _, _, _)
ShipyardLoop(yards, i, current_credits, reservation, require_cheapest, purchaser, cfg, ja, shipmap) ==
    IF i > Len(yards) THEN 0
    ELSE IF ~CanAfford(current_credits, yards[i][2], reservation) THEN 0
    ELSE IF Purchasers(yards[i][1], purchaser, cfg, ja, shipmap) # {} THEN i
    ELSE IF require_cheapest THEN 0
    ELSE ShipyardLoop(yards, i + 1, current_credits, reservation, require_cheapest,
                      purchaser, cfg, ja, shipmap)

\* try_buy_ship up to the purchase: its result, or the shipyard it buys at
try_buy_ship(job, purchaser, l, cfg, ja, shipmap) ==
    LET yards == SortByPrice(search_shipyards(job.ship_model))
        reservation == job_credit_reservation(job)
        current_credits == available_credits(l)
        pick == ShipyardLoop(yards, 1, current_credits, reservation,
                             job.require_cheapest, purchaser, cfg, ja, shipmap)
    IN  IF job.never_purchase THEN [result |-> "FailedNeverPurchase", wp |-> None]
        ELSE IF Len(yards) = 0 THEN [result |-> "FailedNoShipyards", wp |-> None]
        ELSE IF pick # 0
             THEN [result |-> "Buy", wp |-> yards[pick][1], cost |-> yards[pick][2],
                   reservation |-> reservation, current_credits |-> current_credits]
        ELSE IF ~CanAfford(current_credits, yards[1][2], reservation)
             THEN [result |-> "FailedLowCredits", wp |-> None]
        ELSE IF job.allow_logistic_task
             THEN [result |-> "FailedNoPurchaser", wp |-> yards[1][1]]
             ELSE [result |-> "FailedNoPurchaser", wp |-> None]

\* the next role of ship_config from index i on, assigned or not
NextUnfilled_Any(cfg, ja, i) == IF i <= Len(cfg) THEN i ELSE 0

\* try_buy_ships: the next role of ship_config, from index i on, that is not assigned
NextUnfilled(cfg, ja, i) ==
    LET I == { k \in i..Len(cfg) : ~job_assigned(ja, cfg[k].id) }
    IN IF I = {} THEN 0 ELSE Min(I)

\* _spawn_run_ship starts an executor: a role is assigned (or the ship is scrapped)
StartsExecutor(rev, s) ==
    scrap_all_ships \/ (rev[s] = None /\ scrap_unassigned) \/ rev[s] # None

\* spawn_run_ship for every ship of S
SpawnAll(sp, rev, S) ==
    [s \in ShipIds |->
        IF s \in S /\ StartsExecutor(rev, s) /\ sp[s] < MaxSpawn THEN sp[s] + 1 ELSE sp[s]]

RoleOf(cfg, id) == CHOOSE r \in { cfg[i] : i \in 1..Len(cfg) } : r.id = id

\* a running logistics executor of ship s
LogisticsRunning(s) ==
    /\ s \in DOMAIN ships
    /\ spawned[s] >= 1
    /\ job_assignments_rev[s] \in ConfigIds(ship_config)
    /\ RoleOf(ship_config, job_assignments_rev[s]).behaviour = "Logistics"

TbInit == [visited |-> {}, cursor |-> 1, job |-> 0, wp |-> None, cost |-> 0,
           reservation |-> 0, current_credits |-> 0, new_ship |-> 0, bought |-> {}]
RetInit == [bought |-> {}, wp |-> None]
ObsNone == [kind |-> "none"]
TickInit == [evals |-> 0, advances |-> 0]
NoRefresh == [some |-> FALSE]

\* the reservations of a ledger
Reservations(l) == [fuel |-> l.fuel, gate |-> l.gate, ship |-> l.ship]

\* what a run of refresh_ship_config read (era through the configuration, ships,
\* jump gate) and what it left (assignments in memory and persisted, reservations)
RefreshRecord(e, cfg, shipmap, gate_done, ja, rev, db, l) ==
    [some |-> TRUE, era |-> e, ship_config |-> cfg,
     models |-> [s \in DOMAIN shipmap |-> shipmap[s].model], gate |-> gate_done,
     job_assignments |-> ja, job_assignments_rev |-> rev, db_assignments |-> db,
     reserved |-> Reservations(l)]

---------------------------------------------------------------------------
(* Agent Controller: actions                                               *)

xvars == << jumpgate_finished, cargo, trades, restarts, era_override, tm_ship, refreshed >>

\* where try_buy_ships returns to
Continuation(p) ==
    CASE p = "agent" -> "a_spawn" [] p = "ctrl" -> "c_spawn" [] p = "tm" -> "t_spawn"

\* try_buy_ships returns (purchased_ships, waypoint); the guard is dropped
Return(p, waypoint) ==
    /\ lock' = None
    /\ ret' = [ret EXCEPT ![p] = [bought |-> tb.bought, wp |-> waypoint]]
    /\ pc' = [pc EXCEPT ![p] = Continuation(p)]
    /\ tb' = TbInit

\* a panic inside try_buy_ships: the task ends, the guard is dropped
Panic(p) ==
    /\ lock' = None
    /\ pc' = [pc EXCEPT ![p] = "panicked"]
    /\ tb' = TbInit
    /\ UNCHANGED ret

\* try_buy_ships_lock: the mutex is free and taken
AcquireLock(p) ==
    /\ pc[p] = "lock"
    /\ lock = None
    /\ lock' = p
    /\ pc' = [pc EXCEPT ![p] = "refresh"]
    /\ tb' = TbInit
    /\ obs' = ObsNone
    /\ UNCHANGED << evars, pvars >>
    /\ UNCHANGED << era, db_era, ships, ship_config, job_assignments, job_assignments_rev,
                    db_assignments, ledger, ret, spawned, ctick, xvars >>

\* refresh_ship_config: generate and set the configuration, unassign, persist
RefreshConfig(p) ==
    /\ pc[p] = "refresh"
    /\ lock = p
    /\ obs' = ObsNone
    /\ IF ~EraSupported(era)
       THEN /\ Panic(p)
            /\ UNCHANGED << ship_config, job_assignments, job_assignments_rev, db_assignments >>
       ELSE LET cfg == generate_ship_config(era)
                m == RemoveAssignments(job_assignments, job_assignments_rev,
                                       keys_to_remove(cfg, job_assignments, ships))
            IN /\ ship_config' = cfg
               /\ job_assignments' = m.fwd
               /\ job_assignments_rev' = m.rev
               /\ db_assignments' = m.fwd
               /\ pc' = [pc EXCEPT ![p] = "assign"]
               /\ UNCHANGED << lock, tb, ret >>
    /\ UNCHANGED << evars, pvars >>
    /\ UNCHANGED << era, db_era, ships, ledger, spawned, ctick, xvars >>

\* refresh_ship_config: try_assign_ship for one ship that has no role
RefreshAssign(p, s) ==
    /\ pc[p] = "assign"
    /\ lock = p
    /\ s \in DOMAIN ships \ tb.visited
    /\ ~ship_assigned(job_assignments_rev, s)
    /\ try_assign_ship(s)
    /\ tb' = [tb EXCEPT !.visited = @ \cup {s}]
    /\ obs' = ObsNone
    /\ UNCHANGED << evars, pvars >>
    /\ UNCHANGED << era, db_era, ships, ship_config, lock, pc, ret, spawned, ctick, xvars >>

\* refresh_ship_config: the ledger refresh; then try_buy_ships goes to its role loop
RefreshLedger(p) ==
    /\ pc[p] = "assign"
    /\ lock = p
    /\ \A s \in DOMAIN ships \ tb.visited : ship_assigned(job_assignments_rev, s)
    /\ ledger' = RefreshLedgerOf(ledger, ship_config, job_assignments, ships, jumpgate_finished)
    /\ obs' = [kind |-> "refreshed", by |-> p]
    /\ IF scrap_all_ships
       THEN Return(p, None)
       ELSE /\ pc' = [pc EXCEPT ![p] = "jobs"]
            /\ tb' = [tb EXCEPT !.cursor = 1]
            /\ UNCHANGED << lock, ret >>
    /\ refreshed' = RefreshRecord(era, ship_config, ships, jumpgate_finished, job_assignments,
                                  job_assignments_rev, db_assignments, ledger')
    /\ UNCHANGED << evars, pvars >>
    /\ UNCHANGED << era, db_era, ships, ship_config, job_assignments, job_assignments_rev,
                    db_assignments, spawned, ctick, jumpgate_finished, cargo, trades,
                    restarts, era_override, tm_ship >>

\* try_buy_ships: the next unfilled role; try_buy_ship up to the purchase request
TryBuyShip(p) ==
    /\ pc[p] = "jobs"
    /\ lock = p
    /\ LET j == NextUnfilled(ship_config, job_assignments, tb.cursor) IN
       IF j = 0 \/ Cardinality(DOMAIN ships) >= MaxShips
       THEN /\ Return(p, None)
            /\ obs' = ObsNone
       ELSE LET job == ship_config[j]
                r == try_buy_ship(job, 0, ledger, ship_config, job_assignments, ships)
            IN /\ obs' = [kind |-> "try_buy_ship", by |-> p, job |-> job.id, result |-> r.result,
                          wp |-> r.wp,
                          available |-> available_credits(ledger),
                          cheapest |-> IF search_shipyards(job.ship_model) = << >> THEN 0
                                       ELSE SortByPrice(search_shipyards(job.ship_model))[1][2],
                          reservation |-> job_credit_reservation(job),
                          never_purchase |-> job.never_purchase]
               /\ IF r.result = "Buy"
                  THEN /\ tb' = [tb EXCEPT !.job = j, !.wp = r.wp, !.cost = r.cost,
                                           !.reservation = r.reservation,
                                           !.current_credits = r.current_credits]
                       /\ pc' = [pc EXCEPT ![p] = "buy"]
                       /\ UNCHANGED << lock, ret >>
                  ELSE Return(p, r.wp)
    /\ UNCHANGED << evars, pvars >>
    /\ UNCHANGED << era, db_era, ships, ship_config, job_assignments, job_assignments_rev,
                    db_assignments, ledger, spawned, ctick, xvars >>

\* the symbol the server gives the bought ship
NewShipSymbol == Min(ShipIds \ DOMAIN ships)

\* buy_ship: the purchase request and its response (update_agent, ships.insert)
BuyShip(p) ==
    /\ pc[p] = "buy"
    /\ lock = p
    /\ LET n == NewShipSymbol
           model == ship_config[tb.job].ship_model
       IN /\ ships' = [s \in DOMAIN ships \cup {n} |->
                          IF s = n THEN [model |-> model, wp |-> tb.wp, transit |-> FALSE]
                          ELSE ships[s]]
          /\ tb' = [tb EXCEPT !.new_ship = n]
    /\ ledger' = set_credits(ledger, ledger.credits - tb.cost)
    /\ obs' = [kind |-> "buy_ship", by |-> p, available |-> available_credits(ledger),
               cost |-> tb.cost, reservation |-> tb.reservation, wp |-> tb.wp]
    /\ pc' = [pc EXCEPT ![p] = "bassign"]
    /\ UNCHANGED << evars, pvars >>
    /\ UNCHANGED << era, db_era, ship_config, job_assignments, job_assignments_rev,
                    db_assignments, lock, ret, spawned, ctick, xvars >>

\* try_buy_ship: try_assign_ship of the bought ship, assert!(assigned)
BuyAssign(p) ==
    /\ pc[p] = "bassign"
    /\ lock = p
    /\ obs' = ObsNone
    /\ IF \/ ship_assigned(job_assignments_rev, tb.new_ship)
          \/ FindJob(ship_config, job_assignments, ships[tb.new_ship].model) = 0
       THEN /\ Panic(p)
            /\ UNCHANGED << job_assignments, job_assignments_rev, db_assignments, ledger >>
       ELSE /\ try_assign_ship(tb.new_ship)
            /\ tb' = [tb EXCEPT !.bought = @ \cup {tb.new_ship}, !.cursor = tb.job + 1]
            /\ pc' = [pc EXCEPT ![p] = "jobs"]
            /\ UNCHANGED << lock, ret >>
    /\ UNCHANGED << evars, pvars >>
    /\ UNCHANGED << era, db_era, ships, ship_config, spawned, ctick, xvars >>

\* run_agent: after try_buy_ships, spawn_run_ship for every ship of the ships map
AgentSpawn ==
    /\ pc["agent"] = "a_spawn"
    /\ spawned' = SpawnAll(spawned, job_assignments_rev, DOMAIN ships)
    /\ pc' = [pc EXCEPT !["agent"] = "a_done"]
    /\ obs' = [kind |-> "spawn", by |-> "agent"]
    /\ UNCHANGED << evars, pvars >>
    /\ UNCHANGED << era, db_era, ships, ship_config, job_assignments, job_assignments_rev,
                    db_assignments, ledger, lock, tb, ret, ctick, xvars >>

\* controller_loop: interval.tick() fires
CtrlTick ==
    /\ pc["ctrl"] = "c_tick"
    /\ pc' = [pc EXCEPT !["ctrl"] = "c_era"]
    /\ ctick' = TickInit
    /\ obs' = ObsNone
    /\ UNCHANGED << evars, pvars >>
    /\ UNCHANGED << era, db_era, ships, ship_config, job_assignments, job_assignments_rev,
                    db_assignments, ledger, lock, tb, ret, spawned, xvars >>

\* an advance only above the threshold
next_era_strict(current_era, credits) ==
    IF current_era = "StartingSystem1" /\ credits > EraThreshold
    THEN "StartingSystem2"
    ELSE None

\* check_era_advance: the next era of the match on the current era
next_era(current_era, credits) ==
    IF current_era = "StartingSystem1" /\ credits >= EraThreshold
    THEN "StartingSystem2"
    ELSE None

\* check_era_advance: one evaluation (the override, or one pass of the loop);
\* update_era sets the era in memory, the write to the store follows
EraCheck ==
    /\ pc["ctrl"] = "c_era"
    /\ IF era_override # None
       THEN /\ era' = era_override
            /\ pc' = [pc EXCEPT !["ctrl"] = IF era_override # era THEN "c_era_persist" ELSE "lock"]
            /\ ctick' = [ctick EXCEPT !.evals = @ + 1]
            /\ obs' = [kind |-> "era_override"]
       ELSE LET n == next_era(era, available_credits(ledger)) IN
            /\ era' = IF n = None THEN era ELSE n
            /\ pc' = [pc EXCEPT !["ctrl"] = IF n = None THEN "lock" ELSE "c_era_persist"]
            /\ ctick' = [evals |-> ctick.evals + 1,
                         advances |-> ctick.advances + (IF n = None THEN 0 ELSE 1)]
            /\ obs' = [kind |-> "era_check", before |-> era,
                       available |-> available_credits(ledger)]
    /\ UNCHANGED << evars, pvars >>
    /\ UNCHANGED << db_era, ships, ship_config, job_assignments, job_assignments_rev,
                    db_assignments, ledger, lock, tb, ret, spawned, xvars >>

\* update_era: db.set_value("{callsign}/state"); the loop then evaluates again
EraPersist ==
    /\ pc["ctrl"] = "c_era_persist"
    /\ db_era' = era
    /\ pc' = [pc EXCEPT !["ctrl"] = IF era_override # None THEN "lock" ELSE "c_era"]
    /\ obs' = ObsNone
    /\ UNCHANGED << evars, pvars >>
    /\ UNCHANGED << era, ships, ship_config, job_assignments, job_assignments_rev,
                    db_assignments, ledger, lock, tb, ret, spawned, ctick, xvars >>

\* controller_tick: spawn_run_ship for the ships this tick bought
CtrlSpawn ==
    /\ pc["ctrl"] = "c_spawn"
    /\ spawned' = SpawnAll(spawned, job_assignments_rev, ret["ctrl"].bought)
    /\ pc' = [pc EXCEPT !["ctrl"] = "c_tick"]
    /\ ret' = [ret EXCEPT !["ctrl"] = RetInit]
    /\ obs' = [kind |-> "spawn", by |-> "ctrl"]
    /\ UNCHANGED << evars, pvars >>
    /\ UNCHANGED << era, db_era, ships, ship_config, job_assignments, job_assignments_rev,
                    db_assignments, ledger, lock, tb, ctick, xvars >>

\* an executor of ship s at work (not inside take_tasks)
Working(s) == ~(pc["tm"] # "t_idle" /\ tm_ship = s)

\* take_tasks of a logistics executor (cargo empty): generate_task_list's buy phase begins
TmCall(s) ==
    /\ pc["tm"] = "t_idle"
    /\ LogisticsRunning(s)
    /\ cargo[s] = 0
    /\ tm_ship' = s
    /\ pc' = [pc EXCEPT !["tm"] = "lock"]
    /\ obs' = ObsNone
    /\ UNCHANGED << evars, pvars >>
    /\ UNCHANGED << era, db_era, ships, ship_config, job_assignments, job_assignments_rev,
                    db_assignments, ledger, lock, tb, ret, spawned, ctick,
                    jumpgate_finished, cargo, trades, restarts, era_override, refreshed >>

\* generate_task_list: _spawn_run_ship for the ships the buy phase bought (a returned
\* waypoint becomes a TryBuyShips task); take_tasks then reserves for its ship
TmSpawn ==
    /\ pc["tm"] = "t_spawn"
    /\ spawned' = SpawnAll(spawned, job_assignments_rev, ret["tm"].bought)
    /\ ledger' = reserve_ship(ledger, tm_ship,
                              CreditsPerCargoUnit * CargoCapacity(ships[tm_ship].model))
    /\ pc' = [pc EXCEPT !["tm"] = "t_idle"]
    /\ ret' = [ret EXCEPT !["tm"] = RetInit]
    /\ obs' = [kind |-> "spawn", by |-> "tm", task_wp |-> ret["tm"].wp]
    /\ UNCHANGED << evars, pvars >>
    /\ UNCHANGED << era, db_era, ships, ship_config, job_assignments, job_assignments_rev,
                    db_assignments, lock, tb, ctick, xvars >>

\* ShipController::trade_good("purchase", .., adjust_reserved_credits = true)
ExecPurchase(s, v) ==
    /\ LogisticsRunning(s) /\ Working(s)
    /\ cargo[s] = 0
    /\ trades < MaxTrades
    /\ ledger.credits >= v
    /\ trades' = trades + 1
    /\ ledger' = register_goods_change(set_credits(ledger, ledger.credits - v), s, v)
    /\ cargo' = [cargo EXCEPT ![s] = v]
    /\ obs' = ObsNone
    /\ UNCHANGED << evars, pvars >>
    /\ UNCHANGED << era, db_era, ships, ship_config, job_assignments, job_assignments_rev,
                    db_assignments, lock, pc, tb, ret, spawned, ctick,
                    jumpgate_finished, restarts, era_override, tm_ship, refreshed >>

\* ShipController::trade_good("sell", .., adjust_reserved_credits = true)
ExecSell(s) ==
    /\ LogisticsRunning(s) /\ Working(s)
    /\ cargo[s] > 0
    /\ ledger' = register_goods_change(set_credits(ledger, ledger.credits + cargo[s]),
                                       s, 0 - cargo[s])
    /\ cargo' = [cargo EXCEPT ![s] = 0]
    /\ obs' = ObsNone
    /\ UNCHANGED << evars, pvars >>
    /\ UNCHANGED << era, db_era, ships, ship_config, job_assignments, job_assignments_rev,
                    db_assignments, lock, pc, tb, ret, spawned, ctick,
                    jumpgate_finished, trades, restarts, era_override, tm_ship, refreshed >>

\* ShipController::refuel: the response's agent goes to update_agent
ExecRefuel(s, c) ==
    /\ LogisticsRunning(s) /\ Working(s)
    /\ trades < MaxTrades
    /\ ledger.credits >= c
    /\ ledger' = set_credits(ledger, ledger.credits - c)
    /\ trades' = trades + 1
    /\ obs' = ObsNone
    /\ UNCHANGED << evars, pvars >>
    /\ UNCHANGED << era, db_era, ships, ship_config, job_assignments, job_assignments_rev,
                    db_assignments, lock, pc, tb, ret, spawned, ctick,
                    jumpgate_finished, cargo, restarts, era_override, tm_ship, refreshed >>

\* the probe executor of ship s: goto_waypoint to the waypoint of its role
ProbeGoto(s) ==
    /\ s \in DOMAIN ships
    /\ spawned[s] >= 1
    /\ job_assignments_rev[s] \in ConfigIds(ship_config)
    /\ LET job == RoleOf(ship_config, job_assignments_rev[s]) IN
       /\ job.behaviour = "Probe"
       /\ ~ships[s].transit
       /\ ships[s].wp # job.waypoints[1]
       /\ ships' = [ships EXCEPT ![s] = [@ EXCEPT !.wp = job.waypoints[1]]]
    /\ obs' = ObsNone
    /\ UNCHANGED << evars, pvars >>
    /\ UNCHANGED << era, db_era, ship_config, job_assignments, job_assignments_rev,
                    db_assignments, ledger, lock, pc, tb, ret, spawned, ctick, xvars >>

\* the construction of the home jumpgate completes (is_jumpgate_finished becomes true)
JumpgateCompleted ==
    /\ ~jumpgate_finished
    /\ jumpgate_finished' = TRUE
    /\ obs' = ObsNone
    /\ UNCHANGED << evars, pvars >>
    /\ UNCHANGED << era, db_era, ships, ship_config, job_assignments, job_assignments_rev,
                    db_assignments, ledger, lock, pc, tb, ret, spawned, ctick,
                    cargo, trades, restarts, era_override, tm_ship, refreshed >>

---------------------------------------------------------------------------
(* Task manager (take_tasks, set_task_completed) and logistics executor    *)

\* the ships that run the logistics script
LogiShips == {1, 3}

\* task ids of generate_task_list
TaskIds == {"trade_G", "refreshmarket_W1"}

ScheduledAction(wp, act, task, completes) ==
    [waypoint |-> wp, action |-> act, task |-> task, completes_task_id |-> completes]

\* take_tasks: the actions of a task (TransportCargo: src then dest, VisitLocation: one);
\* only the last action completes the task
TaskActions(t) ==
    IF t = "trade_G"
    THEN << ScheduledAction("W1", "BuyGoods", t, FALSE),
            ScheduledAction("W2", "SellGoods", t, TRUE) >>
    ELSE << ScheduledAction("W1", "RefreshMarket", t, TRUE) >>

TaskValue(t) == IF t = "trade_G" THEN 2000 ELSE 1000

\* Action::net_cargo, in units of the one good traded (0: no change of cargo)
net_cargo(act) ==
    CASE act = "BuyGoods" -> 1
      [] act = "SellGoods" -> 0 - 1
      [] OTHER -> 0

NoSchedule == [some |-> FALSE, actions |-> << >>]
SomeSchedule(actions) == [some |-> TRUE, actions |-> actions]

\* take_tasks: every available task is kept
available_tasks_unfiltered(all_tasks, ip) == all_tasks

\* take_tasks: filter out the tasks that are already in progress
available_tasks(all_tasks, ip) == { t \in all_tasks : ip[t] = 0 }

\* take_tasks: in_progress_tasks.retain(|_k, v| v.1 != ship_symbol)
cleanup(ip, s) == [t \in TaskIds |-> IF ip[t] = s THEN 0 ELSE ip[t]]

\* run_planner: a schedule of some of the available tasks, one after the other
Plans(av) ==
    {<< >>}
    \cup { TaskActions(t) : t \in av }
    \cup UNION { { TaskActions(t) \o TaskActions(u) : u \in av \ {t} } : t \in av }

\* take_tasks: the highest value task, when the planner assigned none
highest_value_task(av) == CHOOSE t \in av : \A u \in av : TaskValue(u) <= TaskValue(t)

\* take_tasks: the schedule returned for the planner's schedule
ForceAssign(plan, av) ==
    IF Len(plan) = 0 /\ av # {} THEN TaskActions(highest_value_task(av)) ELSE plan

TasksOf(actions) == { actions[i].task : i \in 1..Len(actions) }

\* logistics::run: resume whenever both exist
resume_saved_any_progress(schedule_opt, progress_opt) ==
    schedule_opt.some /\ progress_opt >= 0

\* logistics::run: resume_saved
resume_saved(schedule_opt, progress_opt) ==
    schedule_opt.some /\ progress_opt >= 0 /\ progress_opt < Len(schedule_opt.actions)

\* an expectation that leaves the executed actions out
expected_cargo_without_progress(actions, n) == 0

\* logistics::run: the cargo expected after the first n actions
RECURSIVE expected_cargo(_, _)
expected_cargo(actions, n) ==
    IF n = 0 THEN 0 ELSE expected_cargo(actions, n - 1) + net_cargo(actions[n].action)

\* a comparison of the traded good alone
cargo_map_eq_ignoring_fuel(expected, units, fuel) == expected = units

\* logistics::run: expected_cargo == ship_controller.cargo_map(), for a cargo of
\* units of the traded good and fuel units of FUEL (the schedules trade no FUEL)
cargo_map_eq(expected, units, fuel) == expected = units /\ fuel = 0

ZeroCount == [i \in 1..3 |-> 0]
EobsNone == [kind |-> "none"]

ExecInit ==
    /\ in_progress = [t \in TaskIds |-> 0]
    /\ db_in_progress = [t \in TaskIds |-> 0]
    /\ tt_lock = 0
    /\ db_schedule = [s \in LogiShips |-> NoSchedule]
    /\ db_progress = [s \in LogiShips |-> 0 - 1]
    /\ epc = [s \in LogiShips |-> "load"]
    /\ sch = [s \in LogiShips |-> << >>]
    /\ idx = [s \in LogiShips |-> 0]
    /\ skip = [s \in LogiShips |-> 0]
    /\ avail = [s \in LogiShips |-> {}]
    /\ hold = [s \in LogiShips |-> 0]
    /\ exec_count = [s \in LogiShips |-> ZeroCount]
    /\ crashes = 0
    /\ eobs = EobsNone

acvars_but_ledger ==
    << era, db_era, era_override, ships, ship_config, job_assignments,
       job_assignments_rev, db_assignments, lock, pc, tb, ret,
       spawned, jumpgate_finished, cargo, trades, restarts, tm_ship, ctick,
       refreshed, obs >>

acvars_but_ships ==
    << era, db_era, era_override, ship_config, job_assignments, job_assignments_rev,
       db_assignments, ledger, lock, pc, tb, ret, spawned, jumpgate_finished, cargo,
       trades, restarts, tm_ship, ctick, refreshed, obs >>

\* logistics::run: load the persisted schedule and progress, resume or ask for tasks
Load(s) ==
    /\ epc[s] = "load"
    /\ LET schedule_opt == db_schedule[s]
           progress_opt == db_progress[s]
           resume == resume_saved(schedule_opt, progress_opt)
       IN /\ eobs' = [kind |-> "load", ship |-> s, resume |-> resume]
          /\ IF schedule_opt.some # (progress_opt >= 0)
             THEN /\ epc' = [epc EXCEPT ![s] = "dead"]
                  /\ UNCHANGED << sch, idx >>
             ELSE IF resume
             THEN /\ sch' = [sch EXCEPT ![s] = schedule_opt.actions]
                  /\ idx' = [idx EXCEPT ![s] = progress_opt]
                  /\ epc' = [epc EXCEPT ![s] = "check"]
             ELSE /\ epc' = [epc EXCEPT ![s] = IF fuel_hold[s] > 0 THEN "sell_fuel"
                                               ELSE IF hold[s] = 0 THEN "take" ELSE "dead"]
                  /\ UNCHANGED << sch, idx >>
    /\ skip' = [skip EXCEPT ![s] = 0]
    /\ UNCHANGED << in_progress, db_in_progress, tt_lock, db_schedule, db_progress,
                    avail, hold, exec_count, crashes >>
    /\ UNCHANGED << fuel_hold, acvars, pvars >>

\* take_tasks: the lock is taken, the ship's own tasks are dropped
TakeBegin(s) ==
    /\ epc[s] = "take"
    /\ tt_lock = 0
    /\ tt_lock' = s
    /\ in_progress' = cleanup(in_progress, s)
    /\ epc' = [epc EXCEPT ![s] = "tt_gen"]
    /\ eobs' = [kind |-> "take_begin", ship |-> s]
    /\ UNCHANGED << db_in_progress, db_schedule, db_progress, sch, idx, skip, avail, hold,
                    exec_count, crashes >>
    /\ UNCHANGED << fuel_hold, acvars, pvars >>

\* take_tasks: generate_task_list has returned; reserve credits, filter the tasks
TakeFilter(s) ==
    /\ epc[s] = "tt_gen"
    /\ ledger' = reserve_ship(ledger, s, CreditsPerCargoUnit * CargoCapacity(ships[s].model))
    /\ avail' = [avail EXCEPT ![s] = available_tasks(TaskIds, in_progress)]
    /\ epc' = [epc EXCEPT ![s] = "tt_plan"]
    /\ eobs' = EobsNone
    /\ UNCHANGED << in_progress, db_in_progress, tt_lock, db_schedule, db_progress, sch, idx,
                    skip, hold, exec_count, crashes >>
    /\ UNCHANGED << fuel_hold, acvars_but_ledger, pvars >>

\* take_tasks: the planner's schedule (or the forced task) is entered in in_progress_tasks
TakeAssign(s) ==
    /\ epc[s] = "tt_plan"
    /\ \E plan \in Plans(avail[s]) :
          LET schedule == ForceAssign(plan, avail[s]) IN
          /\ sch' = [sch EXCEPT ![s] = schedule]
          /\ in_progress' = [t \in TaskIds |->
                                IF t \in TasksOf(schedule) THEN s ELSE in_progress[t]]
          /\ eobs' = [kind |-> "take_tasks", ship |-> s, tasks |-> TasksOf(schedule)]
    /\ epc' = [epc EXCEPT ![s] = "tt_ret"]
    /\ UNCHANGED << db_in_progress, tt_lock, db_schedule, db_progress, idx, skip, avail,
                    hold, exec_count, crashes >>
    /\ UNCHANGED << fuel_hold, acvars, pvars >>

\* take_tasks: save_task_manager_state, then the schedule is returned
TakeReturn(s) ==
    /\ epc[s] = "tt_ret"
    /\ db_in_progress' = in_progress
    /\ tt_lock' = 0
    /\ epc' = [epc EXCEPT ![s] = "save_sched"]
    /\ eobs' = EobsNone
    /\ UNCHANGED << in_progress, db_schedule, db_progress, sch, idx, skip, avail, hold,
                    exec_count, crashes >>
    /\ UNCHANGED << fuel_hold, acvars, pvars >>

\* logistics::run: db.save_schedule
SaveSchedule(s) ==
    /\ epc[s] = "save_sched"
    /\ db_schedule' = [db_schedule EXCEPT ![s] = SomeSchedule(sch[s])]
    /\ exec_count' = [exec_count EXCEPT ![s] = ZeroCount]
    /\ epc' = [epc EXCEPT ![s] = "save_prog"]
    /\ eobs' = EobsNone
    /\ UNCHANGED << in_progress, db_in_progress, tt_lock, db_progress, sch, idx, skip, avail,
                    hold, crashes >>
    /\ UNCHANGED << fuel_hold, acvars, pvars >>

\* logistics::run: db.save_schedule_progress(0)
SaveProgress(s) ==
    /\ epc[s] = "save_prog"
    /\ db_progress' = [db_progress EXCEPT ![s] = 0]
    /\ idx' = [idx EXCEPT ![s] = 0]
    /\ epc' = [epc EXCEPT ![s] = "check"]
    /\ eobs' = EobsNone
    /\ UNCHANGED << in_progress, db_in_progress, tt_lock, db_schedule, sch, skip, avail,
                    hold, exec_count, crashes >>
    /\ UNCHANGED << fuel_hold, acvars, pvars >>

\* logistics::run: the sanity check of the cargo before executing
Check(s) ==
    /\ epc[s] = "check"
    /\ IF Len(sch[s]) = 0
       THEN /\ epc' = [epc EXCEPT ![s] = "load"]
            /\ skip' = skip
            /\ eobs' = [kind |-> "sleep", ship |-> s]
       ELSE LET expected == expected_cargo(sch[s], idx[s])
                cargo_correct == cargo_map_eq(expected, hold[s], fuel_hold[s])
                cargo_correct_except_fuel == cargo_map_eq(expected, hold[s], 0)
                cargo_correct1 ==
                    cargo_map_eq(expected + net_cargo(sch[s][idx[s] + 1].action),
                                 hold[s], fuel_hold[s])
            IN /\ eobs' = [kind |-> "check", ship |-> s, index |-> idx[s] + 1,
                           cargo_correct |-> cargo_correct,
                           cargo_correct1 |-> cargo_correct1,
                           cargo_correct_except_fuel |-> cargo_correct_except_fuel]
               /\ IF cargo_correct
                  THEN /\ skip' = [skip EXCEPT ![s] = 0]
                       /\ epc' = [epc EXCEPT ![s] = "exec"]
                  ELSE IF cargo_correct1
                  THEN /\ skip' = [skip EXCEPT ![s] = 1]
                       /\ epc' = [epc EXCEPT ![s] = "exec"]
                  ELSE IF cargo_correct_except_fuel
                  THEN /\ skip' = [skip EXCEPT ![s] = 0]
                       /\ epc' = [epc EXCEPT ![s] = "dump_fuel"]
                  ELSE /\ skip' = skip
                       /\ epc' = [epc EXCEPT ![s] = "dead"]
    /\ UNCHANGED << in_progress, db_in_progress, tt_lock, db_schedule, db_progress, sch, idx,
                    avail, hold, exec_count, crashes >>
    /\ UNCHANGED << fuel_hold, acvars, pvars >>

\* logistics::run: goto_waypoint and execute_action (or one skipped action)
Execute(s) ==
    /\ epc[s] = "exec"
    /\ IF idx[s] >= Len(sch[s])
       THEN /\ epc' = [epc EXCEPT ![s] = "load"]
            /\ eobs' = [kind |-> "completed", ship |-> s]
            /\ UNCHANGED << skip, hold, exec_count, ships >>
       ELSE LET i == idx[s] + 1
                after == hold[s] + net_cargo(sch[s][i].action)
            IN /\ ships' = [ships EXCEPT ![s] = [@ EXCEPT !.wp = sch[s][i].waypoint]]
               /\ IF skip[s] > 0
                  THEN /\ skip' = [skip EXCEPT ![s] = @ - 1]
                       /\ epc' = [epc EXCEPT ![s] = "persist"]
                       /\ eobs' = [kind |-> "skip", ship |-> s, index |-> i]
                       /\ UNCHANGED << hold, exec_count >>
                  ELSE IF after < 0
                  THEN /\ epc' = [epc EXCEPT ![s] = "dead"]
                       /\ eobs' = [kind |-> "failed", ship |-> s, index |-> i]
                       /\ UNCHANGED << skip, hold, exec_count >>
                  ELSE /\ hold' = [hold EXCEPT ![s] = after]
                       /\ exec_count' = [exec_count EXCEPT ![s][i] = @ + 1]
                       /\ epc' = [epc EXCEPT ![s] = "persist"]
                       /\ eobs' = [kind |-> "execute", ship |-> s, index |-> i]
                       /\ skip' = skip
    /\ UNCHANGED << in_progress, db_in_progress, tt_lock, db_schedule, db_progress, sch, idx,
                    avail, crashes >>
    /\ UNCHANGED << fuel_hold, acvars_but_ships, pvars >>

\* logistics::run: db.update_schedule_progress(action_idx + 1)
Persist(s) ==
    /\ epc[s] = "persist"
    /\ db_progress' = [db_progress EXCEPT ![s] = idx[s] + 1]
    /\ IF sch[s][idx[s] + 1].completes_task_id
       THEN /\ epc' = [epc EXCEPT ![s] = "complete"]
            /\ idx' = idx
       ELSE /\ epc' = [epc EXCEPT ![s] = "exec"]
            /\ idx' = [idx EXCEPT ![s] = @ + 1]
    /\ eobs' = EobsNone
    /\ UNCHANGED << in_progress, db_in_progress, tt_lock, db_schedule, sch, skip, avail, hold,
                    exec_count, crashes >>
    /\ UNCHANGED << fuel_hold, acvars, pvars >>

\* set_task_completed: remove the task, save_task_manager_state
set_task_completed(s) ==
    /\ epc[s] = "complete"
    /\ in_progress' = [in_progress EXCEPT ![sch[s][idx[s] + 1].task] = 0]
    /\ db_in_progress' = in_progress'
    /\ idx' = [idx EXCEPT ![s] = @ + 1]
    /\ epc' = [epc EXCEPT ![s] = "exec"]
    /\ eobs' = [kind |-> "set_task_completed", ship |-> s, task |-> sch[s][idx[s] + 1].task]
    /\ UNCHANGED << tt_lock, db_schedule, db_progress, sch, skip, avail, hold, exec_count,
                    crashes >>
    /\ UNCHANGED << fuel_hold, acvars, pvars >>

\* logistics::run: the FUEL left in the cargo is sold before a new schedule is asked
\* for, then the cargo must be empty
SellFuel(s) ==
    /\ epc[s] = "sell_fuel"
    /\ \E price \in FuelSalePrices :
          ledger' = set_credits(ledger, ledger.credits + price * fuel_hold[s])
    /\ fuel_hold' = [fuel_hold EXCEPT ![s] = 0]
    /\ epc' = [epc EXCEPT ![s] = IF hold[s] = 0 THEN "take" ELSE "dead"]
    /\ eobs' = [kind |-> "sell_fuel", ship |-> s]
    /\ UNCHANGED << in_progress, db_in_progress, tt_lock, db_schedule, db_progress, sch, idx,
                    skip, avail, hold, exec_count, crashes >>
    /\ UNCHANGED << acvars_but_ledger, pvars >>

\* logistics::run: the cargo is correct except for FUEL, which is sold
DumpFuel(s) ==
    /\ epc[s] = "dump_fuel"
    /\ \E price \in FuelSalePrices :
          ledger' = set_credits(ledger, ledger.credits + price * fuel_hold[s])
    /\ fuel_hold' = [fuel_hold EXCEPT ![s] = 0]
    /\ epc' = [epc EXCEPT ![s] = "exec"]
    /\ eobs' = [kind |-> "dump_fuel", ship |-> s, index |-> idx[s] + 1]
    /\ UNCHANGED << in_progress, db_in_progress, tt_lock, db_schedule, db_progress, sch, idx,
                    skip, avail, hold, exec_count, crashes >>
    /\ UNCHANGED << acvars_but_ledger, pvars >>

\* the process crashes and is started again: every executor starts over, the task
\* manager reloads its persisted state
Crash ==
    /\ crashes < MaxCrashes
    /\ crashes' = crashes + 1
    /\ in_progress' = db_in_progress
    /\ tt_lock' = 0
    /\ epc' = [s \in LogiShips |-> "load"]
    /\ sch' = [s \in LogiShips |-> << >>]
    /\ idx' = [s \in LogiShips |-> 0]
    /\ skip' = [s \in LogiShips |-> 0]
    /\ avail' = [s \in LogiShips |-> {}]
    /\ eobs' = [kind |-> "crash"]
    /\ UNCHANGED << db_in_progress, db_schedule, db_progress, hold, exec_count >>
    /\ UNCHANGED << fuel_hold, acvars, pvars >>

\* the Agent Controller after startup, with a hauler bought and assigned
InitAgentRunning ==
    /\ era = DefaultEra
    /\ db_era = None
    /\ era_override = None
    /\ ships = [s \in {1, 2, 3} |->
                  CASE s = 1 -> [model |-> "CMD", wp |-> "W0", transit |-> FALSE]
                    [] s = 2 -> [model |-> "PROBE", wp |-> "W1", transit |-> FALSE]
                    [] s = 3 -> [model |-> "HAULER", wp |-> "W1", transit |-> FALSE]]
    /\ ship_config = generate_ship_config(DefaultEra)
    /\ job_assignments = [r \in RoleIds |->
                            CASE r = "cmd" -> 1 [] r = "probe_w1" -> 2 [] r = "hauler1" -> 3
                              [] OTHER -> 0]
    /\ job_assignments_rev \in ReverseMaps(job_assignments)
    /\ db_assignments = job_assignments
    /\ ledger = RefreshLedgerOf(LedgerNew(Min(InitCredits)), ship_config, job_assignments,
                                ships, FALSE)
    /\ lock = None
    /\ pc = [p \in Procs |-> CASE p = "agent" -> "a_done" [] p = "ctrl" -> "c_tick"
                               [] p = "tm" -> "t_idle"]
    /\ tb = TbInit
    /\ ret = [p \in Procs |-> RetInit]
    /\ spawned = [s \in ShipIds |-> IF s \in {1, 2, 3} THEN 1 ELSE 0]
    /\ jumpgate_finished = FALSE
    /\ cargo = [s \in ShipIds |-> 0]
    /\ trades = 0
    /\ restarts = 0
    /\ tm_ship = 0
    /\ ctick = TickInit
    /\ refreshed = NoRefresh
    /\ obs = ObsNone

\* the ship whose cargo is drawn from the bounded sets
ReconShip == 3

\* FUEL in the cargo at startup
FuelHolds == { f \in [LogiShips -> FuelCargo] : \A s \in LogiShips \ {ReconShip} : f[s] = 0 }

\* the executors start with nothing persisted; a ship may carry FUEL from a warp
InitExec ==
    /\ InitAgentRunning
    /\ ExecInit
    /\ fuel_hold \in FuelHolds
    /\ NoCall

NextExec ==
    \/ \E s \in LogiShips : Load(s)
    \/ \E s \in LogiShips : TakeBegin(s)
    \/ \E s \in LogiShips : TakeFilter(s)
    \/ \E s \in LogiShips : TakeAssign(s)
    \/ \E s \in LogiShips : TakeReturn(s)
    \/ \E s \in LogiShips : SaveSchedule(s)
    \/ \E s \in LogiShips : SaveProgress(s)
    \/ \E s \in LogiShips : Check(s)
    \/ \E s \in LogiShips : Execute(s)
    \/ \E s \in LogiShips : Persist(s)
    \/ \E s \in LogiShips : set_task_completed(s)
    \/ \E s \in LogiShips : SellFuel(s)
    \/ Crash

SpecExec == InitExec /\ [][NextExec]_vars

\* the executor of the hauler starts on any persisted schedule and progress, with any
\* cargo: the inputs of the cargo check
CargoUnits == {0, 1, 2}

\* in_progress_tasks of a ship at index progress of its schedule
TasksLeft(actions, progress, s) ==
    [t \in TaskIds |->
        IF \E i \in (progress + 1)..Len(actions) : actions[i].task = t THEN s ELSE 0]

InitRecon ==
    /\ InitAgentRunning
    /\ \E actions \in Plans(TaskIds) \ {<< >>} :
       \E progress \in 0..Len(actions) :
          /\ db_schedule = [s \in LogiShips |->
                               IF s = ReconShip THEN SomeSchedule(actions) ELSE NoSchedule]
          /\ db_progress = [s \in LogiShips |-> IF s = ReconShip THEN progress ELSE 0 - 1]
          /\ in_progress = TasksLeft(actions, progress, ReconShip)
          /\ db_in_progress = TasksLeft(actions, progress, ReconShip)
    /\ hold \in { h \in [LogiShips -> CargoUnits] : \A s \in LogiShips \ {ReconShip} : h[s] = 0 }
    /\ fuel_hold \in FuelHolds
    /\ NoCall
    /\ tt_lock = 0
    /\ epc = [s \in LogiShips |-> "load"]
    /\ sch = [s \in LogiShips |-> << >>]
    /\ idx = [s \in LogiShips |-> 0]
    /\ skip = [s \in LogiShips |-> 0]
    /\ avail = [s \in LogiShips |-> {}]
    /\ exec_count = [s \in LogiShips |-> ZeroCount]
    /\ crashes = 0
    /\ eobs = EobsNone

NextRecon ==
    \/ NextExec
    \/ \E s \in LogiShips : DumpFuel(s)

SpecRecon == InitRecon /\ [][NextRecon]_vars

\* logistics::run of ship s: its next step
ExecutorStep(s) ==
    \/ Load(s)
    \/ TakeBegin(s)
    \/ TakeFilter(s)
    \/ TakeAssign(s)
    \/ TakeReturn(s)
    \/ SaveSchedule(s)
    \/ SaveProgress(s)
    \/ Check(s)
    \/ Execute(s)
    \/ Persist(s)
    \/ set_task_completed(s)
    \/ SellFuel(s)
    \/ DumpFuel(s)

\* the process keeps running
NextExecutors == \E s \in LogiShips : ExecutorStep(s)

\* the runtime runs every executor that can run, and the take_tasks mutex is handed
\* out in turn
FairRecon ==
    /\ InitRecon
    /\ [][NextExecutors]_vars
    /\ \A s \in LogiShips : SF_vars(ExecutorStep(s))

PcInit == [p \in Procs |-> CASE p = "agent" -> "lock" [] p = "ctrl" -> "c_tick" [] p = "tm" -> "t_idle"]

\* the process ends at any point and is started again: AgentController::new
Restart ==
    /\ restarts < MaxRestarts
    /\ restarts' = restarts + 1
    /\ era' = IF db_era = None THEN DefaultEra ELSE db_era
    /\ job_assignments' = db_assignments
    /\ job_assignments_rev' \in ReverseMaps(db_assignments)
    /\ ledger' = LedgerNew(ledger.credits)
    /\ ship_config' = << >>
    /\ lock' = None
    /\ pc' = PcInit
    /\ tb' = TbInit
    /\ ret' = [p \in Procs |-> RetInit]
    /\ spawned' = [s \in ShipIds |-> 0]
    /\ ctick' = TickInit
    /\ tm_ship' = 0
    /\ obs' = [kind |-> "restart", before |-> era]
    /\ UNCHANGED << evars, pvars >>
    /\ UNCHANGED << db_era, ships, db_assignments, jumpgate_finished, cargo, trades,
                    era_override, refreshed >>

Init ==
    /\ era = DefaultEra
    /\ db_era = None
    /\ era_override \in {None, "StartingSystem2"}
    /\ ships = [s \in {1, 2} |->
                  IF s = 1 THEN [model |-> "CMD", wp |-> "W0", transit |-> FALSE]
                  ELSE [model |-> "PROBE", wp |-> "W0", transit |-> FALSE]]
    /\ ship_config = << >>
    /\ job_assignments = NoAssignments
    /\ job_assignments_rev = NoAssignmentsRev
    /\ db_assignments = NoAssignments
    /\ \E c \in InitCredits : ledger = LedgerNew(c)
    /\ lock = None
    /\ pc = PcInit
    /\ tb = TbInit
    /\ ret = [p \in Procs |-> RetInit]
    /\ spawned = [s \in ShipIds |-> 0]
    /\ jumpgate_finished = FALSE
    /\ cargo = [s \in ShipIds |-> 0]
    /\ trades = 0
    /\ restarts = 0
    /\ tm_ship = 0
    /\ ctick = TickInit
    /\ refreshed = NoRefresh
    /\ obs = ObsNone
    /\ ExecInit
    /\ fuel_hold = [s \in LogiShips |-> 0]
    /\ NoCall

Next ==
    \/ \E p \in Procs : AcquireLock(p)
    \/ \E p \in Procs : RefreshConfig(p)
    \/ \E p \in Procs : \E s \in ShipIds : RefreshAssign(p, s)
    \/ \E p \in Procs : RefreshLedger(p)
    \/ \E p \in Procs : TryBuyShip(p)
    \/ \E p \in Procs : BuyShip(p)
    \/ \E p \in Procs : BuyAssign(p)
    \/ AgentSpawn
    \/ CtrlTick
    \/ EraCheck
    \/ EraPersist
    \/ CtrlSpawn
    \/ \E s \in ShipIds : TmCall(s)
    \/ TmSpawn
    \/ \E s \in ShipIds : \E v \in GoodsValues : ExecPurchase(s, v)
    \/ \E s \in ShipIds : ExecSell(s)
    \/ \E s \in ShipIds : \E c \in FuelCosts : ExecRefuel(s, c)
    \/ \E s \in ShipIds : ProbeGoto(s)
    \/ JumpgateCompleted
    \/ Restart

Spec == Init /\ [][Next]_vars

---------------------------------------------------------------------------
(* refresh_ship_config at startup, from any persisted assignments and fleet *)

\* the model of a ship by its symbol; ships of earlier runs keep theirs
ModelOf(s) == CASE s = 1 -> "CMD" [] s = 2 -> "PROBE" [] OTHER -> "HAULER"

\* get_all_ships: the command ship and any of the other ships
LoadedFleets ==
    { [s \in S |-> [model |-> ModelOf(s), wp |-> "W0", transit |-> FALSE]] :
        S \in { T \in SUBSET ShipIds : 1 \in T } }

\* "{callsign}/ship_assignments" as try_assign_ship left it in earlier runs: each role
\* with a ship of its model, no ship in two roles
PersistedAssignments ==
    { ja \in [RoleIds -> {0} \cup ShipIds] :
        /\ \A r \in RoleIds :
              ja[r] # 0 => \E i \in 1..5 :
                 /\ generate_ship_config("StartingSystem2")[i].id = r
                 /\ generate_ship_config("StartingSystem2")[i].ship_model = ModelOf(ja[r])
        /\ \A q, r \in RoleIds : (q # r /\ ja[q] # 0) => ja[q] # ja[r] }

\* AgentController::new and the startup routine up to the lock of try_buy_ships
InitRefresh ==
    /\ era \in {"StartingSystem1", "StartingSystem2"}
    /\ db_era = era
    /\ era_override = None
    /\ ships \in LoadedFleets
    /\ ship_config = << >>
    /\ db_assignments \in PersistedAssignments
    /\ job_assignments = db_assignments
    /\ job_assignments_rev \in ReverseMaps(db_assignments)
    /\ ledger = LedgerNew(Min(InitCredits))
    /\ lock = "agent"
    /\ pc = [PcInit EXCEPT !["agent"] = "refresh"]
    /\ tb = TbInit
    /\ ret = [p \in Procs |-> RetInit]
    /\ spawned = [s \in ShipIds |-> 0]
    /\ jumpgate_finished \in BOOLEAN
    /\ cargo = [s \in ShipIds |-> 0]
    /\ trades = 0
    /\ restarts = 0
    /\ tm_ship = 0
    /\ ctick = TickInit
    /\ refreshed = NoRefresh
    /\ obs = ObsNone
    /\ ExecInit
    /\ fuel_hold = [s \in LogiShips |-> 0]
    /\ NoCall

NextRefresh ==
    \/ RefreshConfig("agent")
    \/ \E s \in ShipIds : RefreshAssign("agent", s)
    \/ RefreshLedger("agent")

SpecRefresh == InitRefresh /\ [][NextRefresh]_vars

---------------------------------------------------------------------------
(* The supervisor on a fleet that is already there: who gets an executor    *)

\* the fleet the server returns at startup: the command ship, the probe (at the
\* shipyard it watches), and the haulers of earlier runs
PreexistingFleets ==
    { [s \in S |-> [model |-> ModelOf(s), wp |-> IF s = 2 THEN "W1" ELSE "W0",
                    transit |-> FALSE]] :
        S \in { T \in SUBSET ShipIds : {1, 2} \subseteq T } }

\* the credits at startup: below and above the threshold of the era advance
SpawnCredits == {560000, 1010000}

\* AgentController::new on a store without assignments, in the first era
InitSpawn ==
    /\ era = DefaultEra
    /\ db_era = None
    /\ era_override = None
    /\ ships \in PreexistingFleets
    /\ ship_config = << >>
    /\ job_assignments = NoAssignments
    /\ job_assignments_rev = NoAssignmentsRev
    /\ db_assignments = NoAssignments
    /\ \E c \in SpawnCredits : ledger = LedgerNew(c)
    /\ lock = None
    /\ pc = PcInit
    /\ tb = TbInit
    /\ ret = [p \in Procs |-> RetInit]
    /\ spawned = [s \in ShipIds |-> 0]
    /\ jumpgate_finished = FALSE
    /\ cargo = [s \in ShipIds |-> 0]
    /\ trades = 0
    /\ restarts = 0
    /\ tm_ship = 0
    /\ ctick = TickInit
    /\ refreshed = NoRefresh
    /\ obs = ObsNone
    /\ ExecInit
    /\ fuel_hold = [s \in LogiShips |-> 0]
    /\ NoCall

\* the steps of try_buy_ships as process p runs them
TryBuyShipsStep(p) ==
    \/ AcquireLock(p)
    \/ RefreshConfig(p)
    \/ \E s \in ShipIds : RefreshAssign(p, s)
    \/ RefreshLedger(p)
    \/ TryBuyShip(p)
    \/ BuyShip(p)
    \/ BuyAssign(p)

\* run_agent
AgentStep ==
    \/ TryBuyShipsStep("agent")
    \/ AgentSpawn

\* controller_loop
CtrlStep ==
    \/ CtrlTick
    \/ EraCheck
    \/ EraPersist
    \/ TryBuyShipsStep("ctrl")
    \/ CtrlSpawn

\* take_tasks of the logistics executors
TmStep ==
    \/ \E s \in ShipIds : TmCall(s)
    \/ TryBuyShipsStep("tm")
    \/ TmSpawn

NextSpawn ==
    \/ AgentStep
    \/ CtrlStep
    \/ TmStep

\* the runtime runs every task that can run, and the mutex is handed out in turn
FairSpawn ==
    /\ InitSpawn
    /\ [][NextSpawn]_vars
    /\ SF_vars(AgentStep)
    /\ SF_vars(CtrlStep)
    /\ SF_vars(TmStep)

---------------------------------------------------------------------------
(* Pathfinder: edge, WaypointDetailed::distance, Pathfinding::get_route    *)

\* the waypoints of a system and their coordinates
RouteWaypoints == {"M1", "M2", "N", "P"}
Coord(w) ==
    CASE w = "M1" -> [x |-> 0, y |-> 0]
      [] w = "M2" -> [x |-> 30, y |-> 40]
      [] w = "N" -> [x |-> 50, y |-> 80]
      [] w = "P" -> [x |-> 50, y |-> 70]

Speeds == {10, 30}
StartFuels == {0, 60, 100}
FuelCapacities == {100, 240}
FuelBudgets == {0 - 45, 0, 49, 50, 99, 100, 240}

\* (n as f64).sqrt().round(): the integer nearest to the square root of n
RoundSqrt(n) == CHOOSE k \in 0..MaxDistance : k * k - k < n /\ n <= k * k + k

\* WaypointDetailed::distance
distance(a, b) ==
    IF a = b THEN 0
    ELSE LET dx == Coord(a).x - Coord(b).x
             dy == Coord(a).y - Coord(b).y
             distance2 == dx * dx + dy * dy
             r == IF distance2 = 0 THEN 0 ELSE RoundSqrt(distance2)
         IN IF r < 1 THEN 1 ELSE r

\* the distances of the system, computed once
Distances == [a \in RouteWaypoints, b \in RouteWaypoints |-> distance(a, b)]

\* (15.0 + modifier / speed * distance).round() for modifier = twice_modifier / 2; the
\* f64 value is the exact quotient for the speeds and distances of the model, and
\* round() takes a half upwards
travel_duration(twice_modifier, speed, dist) ==
    (31 * speed + twice_modifier * dist) \div (2 * speed)

NoEdge == [some |-> FALSE]

\* an edge that is always flown in Cruise
edge_cruise_only(a, b, speed, fuel_max) ==
    LET dist == Distances[a, b] IN
    IF dist <= fuel_max
    THEN [some |-> TRUE, distance |-> dist, fuel_cost |-> dist, flight_mode |-> "CRUISE",
          travel_duration |-> travel_duration(2 * CruiseNavModifier, speed, dist)]
    ELSE NoEdge

\* edge: Burn if the budget allows, else Cruise, else no edge
edge(a, b, speed, fuel_max) ==
    LET dist == Distances[a, b] IN
    IF 2 * dist <= fuel_max
    THEN [some |-> TRUE, distance |-> dist, fuel_cost |-> 2 * dist, flight_mode |-> "BURN",
          travel_duration |-> travel_duration(TwiceBurnNavModifier, speed, dist)]
    ELSE IF dist <= fuel_max
    THEN [some |-> TRUE, distance |-> dist, fuel_cost |-> dist, flight_mode |-> "CRUISE",
          travel_duration |-> travel_duration(2 * CruiseNavModifier, speed, dist)]
    ELSE NoEdge

\* Pathfinding::new: the distance of a waypoint to its closest market
closest_market(w, markets) == Min({ Distances[w, m] : m \in markets })

\* no fuel kept for the way back to a market
req_escape_fuel_none(dst, markets) == 0

\* get_route: req_escape_fuel
req_escape_fuel(dst, markets) == IF dst \in markets THEN 0 ELSE closest_market(dst, markets)

\* get_route: the successors of x in the search, as pairs << waypoint, duration >>
successors(x, r) ==
    LET src_is_market == r.src \in r.markets
        dest_is_market == r.dst \in r.markets
        req == req_escape_fuel(r.dst, r.markets)
        DurationsTo(ys, fuel_max) ==
            { << y, edge(x, y, r.speed, fuel_max).travel_duration >> :
                  y \in { z \in ys : edge(x, z, r.speed, fuel_max).some } }
    IN  (IF x \in r.markets THEN DurationsTo(r.markets \ {x}, r.fuel_capacity) ELSE {})
        \cup (IF ~src_is_market /\ x = r.src THEN DurationsTo(r.markets, r.start_fuel)
              ELSE {})
        \cup (IF ~dest_is_market /\ x # r.dst
              THEN DurationsTo({r.dst}, r.fuel_capacity - req) ELSE {})
        \cup (IF ~src_is_market /\ ~dest_is_market /\ x = r.src
              THEN DurationsTo({r.dst}, r.start_fuel - req) ELSE {})

\* the sequences of distinct waypoints from src to dst
SimplePaths(src, dst) ==
    { p \in UNION { [1..n -> RouteWaypoints] : n \in 1..Cardinality(RouteWaypoints) } :
        /\ p[1] = src
        /\ p[Len(p)] = dst
        /\ \A i, j \in 1..Len(p) : i # j => p[i] # p[j] }

\* the cheapest successor edge from x to y
StepCost(x, y, r) == Min({ e[2] : e \in { f \in successors(x, r) : f[1] = y } })

RECURSIVE PathCost(_, _, _)
PathCost(p, n, r) ==
    IF n <= 1 THEN 0 ELSE PathCost(p, n - 1, r) + StepCost(p[n - 1], p[n], r)

\* the paths of the search graph from src to dst
SearchPaths(r) ==
    { p \in SimplePaths(r.src, r.dst) :
        \A i \in 1..(Len(p) - 1) : \E e \in successors(p[i], r) : e[1] = p[i + 1] }

\* dijkstra: the paths of minimum total duration (which of them is returned is the
\* library's choice)
dijkstra(r) ==
    LET ps == SearchPaths(r) IN
    { p \in ps : \A q \in ps : PathCost(p, Len(p), r) <= PathCost(q, Len(q), r) }

\* the capacity as the budget of every hop
fuel_max_of_capacity(a, b, r) == r.fuel_capacity

\* get_route: the budget of the hop from a to b
fuel_max_of(a, b, r) ==
    LET req == req_escape_fuel(r.dst, r.markets) IN
    CASE a \in r.markets /\ b \in r.markets -> r.fuel_capacity
      [] a \in r.markets /\ b \notin r.markets -> r.fuel_capacity - req
      [] a \notin r.markets /\ b \in r.markets -> r.start_fuel
      [] OTHER -> r.start_fuel - req

\* get_route: the hops of a path
hops_of(p, r) ==
    [i \in 1..(Len(p) - 1) |->
        [wp |-> p[i + 1],
         edge |-> edge(p[i], p[i + 1], r.speed, fuel_max_of(p[i], p[i + 1], r)),
         a_is_market |-> p[i] \in r.markets,
         b_is_market |-> p[i + 1] \in r.markets]]

\* get_route for the path the search returned: a Route, or the panic of unwrap()
route_of(p, r) ==
    LET hops == hops_of(p, r) IN
    IF \E i \in 1..Len(hops) : ~hops[i].edge.some
    THEN [kind |-> "panic", at |-> "edge(a, b, speed, fuel_max).unwrap()", path |-> p]
    ELSE [kind |-> "route", path |-> p, hops |-> hops,
          min_travel_duration |-> PathCost(p, Len(p), r),
          req_terminal_fuel |-> req_escape_fuel(r.dst, r.markets)]

\* Pathfinding::get_route: every result the call can have
get_route(r) ==
    IF dijkstra(r) = {}
    THEN { [kind |-> "panic", at |-> "No path found", path |-> << >>] }
    ELSE { route_of(p, r) : p \in dijkstra(r) }

\* the calls of get_route: a system with at least one market
RouteArgs ==
    { [fn |-> "get_route", markets |-> ms, src |-> s, dst |-> d, speed |-> sp,
       start_fuel |-> sf, fuel_capacity |-> fc] :
         ms \in (SUBSET RouteWaypoints) \ {{}}, s \in RouteWaypoints, d \in RouteWaypoints,
         sp \in Speeds, sf \in StartFuels, fc \in FuelCapacities }

\* the calls of edge
EdgeArgs ==
    { [fn |-> "edge", a |-> a, b |-> b, speed |-> sp, fuel_max |-> f] :
         a \in RouteWaypoints, b \in RouteWaypoints, sp \in Speeds, f \in FuelBudgets }

GetRoute ==
    /\ args.fn = "get_route"
    /\ result = NoResult
    /\ result' \in get_route(args)
    /\ UNCHANGED << args, nav, svars, acvars, evars >>

Edge ==
    /\ args.fn = "edge"
    /\ result = NoResult
    /\ result' = [kind |-> "edge", edge |-> edge(args.a, args.b, args.speed, args.fuel_max)]
    /\ UNCHANGED << args, nav, svars, acvars, evars >>

InitRoute ==
    /\ InitAgentRunning
    /\ ExecInit
    /\ fuel_hold = [s \in LogiShips |-> 0]
    /\ args \in { r \in RouteArgs : r.start_fuel <= r.fuel_capacity }
                   \cup { e \in EdgeArgs : e.a # e.b }
    /\ result = NoResult
    /\ NoServices
    /\ nav = NoNav

NextRoute ==
    \/ GetRoute
    \/ Edge

SpecRoute == InitRoute /\ [][NextRoute]_vars

---------------------------------------------------------------------------
(* ShipController::goto_waypoint: route, refuel and navigate hop by hop    *)

\* the fuel tanks of the ships that fly a route (fuel_capacity 0 flies without a route)
GotoCapacities == {0} \cup FuelCapacities

\* units that stop at the last full hundred
refuel_units_whole_hundreds(current, capacity, required_fuel) ==
    ((capacity - current) \div 100) * 100

\* refuel: the units requested (from_cargo = false, so max_refuel_units does not bind)
refuel_units(current, capacity, required_fuel) ==
    LET missing_fuel == capacity - current
        units == (missing_fuel \div 100) * 100
    IN IF units + current < required_fuel THEN missing_fuel ELSE units

\* goto_waypoint: the fuel required before leaving on a hop
required_fuel_of(hop, route) ==
    IF hop.b_is_market THEN hop.edge.fuel_cost
    ELSE hop.edge.fuel_cost + route.req_terminal_fuel

NavStart(wp, fuel) ==
    [status |-> "start", wp |-> wp, fuel |-> fuel, hop |-> 0, last |-> "none",
     required |-> 0, units |-> 0, before |-> fuel]

\* the calls of goto_waypoint: the ship is at src with start_fuel in its tank
GotoArgs ==
    { [fn |-> "goto_waypoint", markets |-> ms, src |-> s, dst |-> d, speed |-> sp,
       start_fuel |-> sf, fuel_capacity |-> fc] :
         ms \in (SUBSET RouteWaypoints) \ {{}}, s \in RouteWaypoints, d \in RouteWaypoints,
         sp \in Speeds, sf \in StartFuels, fc \in GotoCapacities }

\* goto_waypoint up to the route: without a tank navigate at once, at the target return,
\* else get_route (which may panic)
GotoRoute ==
    /\ args.fn = "goto_waypoint"
    /\ nav.status = "start"
    /\ IF args.fuel_capacity = 0
       THEN /\ nav' = [nav EXCEPT !.status = "arrived", !.wp = args.dst, !.last = "navigate"]
            /\ UNCHANGED result
       ELSE IF nav.wp = args.dst
       THEN /\ nav' = [nav EXCEPT !.status = "arrived", !.last = "return"]
            /\ UNCHANGED result
       ELSE /\ result' \in get_route(args)
            /\ nav' = [nav EXCEPT !.status = IF result'.kind = "route" THEN "hop" ELSE "panicked",
                                  !.hop = 1, !.last = "route"]
    /\ UNCHANGED << args, svars, acvars, evars >>

\* the hop the loop is at
CurrentHop == result.hops[nav.hop]

\* goto_waypoint: the ship is short of fuel for the hop and refuels (assert a_market;
\* refuel asserts required_fuel <= capacity); the server fills the tank by the units
GotoRefuel ==
    /\ args.fn = "goto_waypoint"
    /\ nav.status = "hop"
    /\ LET required == required_fuel_of(CurrentHop, result) IN
       /\ nav.fuel < required
       /\ IF ~CurrentHop.b_is_market /\ CurrentHop.wp # args.dst
          THEN nav' = [nav EXCEPT !.status = "panicked", !.last = "assert target"]
          ELSE IF ~CurrentHop.a_is_market
          THEN nav' = [nav EXCEPT !.status = "panicked", !.last = "assert a_market"]
          ELSE IF required > args.fuel_capacity
          THEN nav' = [nav EXCEPT !.status = "panicked", !.last = "assert capacity"]
          ELSE LET units == refuel_units(nav.fuel, args.fuel_capacity, required) IN
               nav' = [nav EXCEPT !.status = "fuelled", !.last = "refuel",
                                  !.required = required, !.units = units,
                                  !.before = nav.fuel,
                                  !.fuel = Min({args.fuel_capacity, nav.fuel + units})]
    /\ UNCHANGED << args, result, svars, acvars, evars >>

\* goto_waypoint: navigate(edge.flight_mode, waypoint); the server takes the fuel of the
\* hop, or rejects the request when the tank holds less
GotoNavigate ==
    /\ args.fn = "goto_waypoint"
    /\ \/ nav.status = "fuelled"
       \/ nav.status = "hop" /\ nav.fuel >= required_fuel_of(CurrentHop, result)
    /\ IF nav.status = "hop" /\ ~CurrentHop.b_is_market /\ CurrentHop.wp # args.dst
       THEN nav' = [nav EXCEPT !.status = "panicked", !.last = "assert target"]
       ELSE IF nav.fuel < CurrentHop.edge.fuel_cost
       THEN nav' = [nav EXCEPT !.status = "failed", !.last = "navigate"]
       ELSE nav' = [nav EXCEPT !.status = IF nav.hop = Len(result.hops) THEN "arrived" ELSE "hop",
                               !.last = "navigate",
                               !.wp = CurrentHop.wp,
                               !.before = nav.fuel,
                               !.required = required_fuel_of(CurrentHop, result),
                               !.fuel = nav.fuel - CurrentHop.edge.fuel_cost,
                               !.hop = IF nav.hop = Len(result.hops) THEN nav.hop ELSE nav.hop + 1]
    /\ UNCHANGED << args, result, svars, acvars, evars >>

InitGoto ==
    /\ InitAgentRunning
    /\ ExecInit
    /\ fuel_hold = [s \in LogiShips |-> 0]
    /\ args \in { g \in GotoArgs : g.start_fuel <= g.fuel_capacity }
    /\ result = NoResult
    /\ NoServices
    /\ nav = NavStart(args.src, args.start_fuel)

NextGoto ==
    \/ GotoRoute
    \/ GotoRefuel
    \/ GotoNavigate

SpecGoto == InitGoto /\ [][NextGoto]_vars

---------------------------------------------------------------------------
(* ShipController: the order of transit check, orbit / dock and request    *)

\* the actions of the ShipController that talk to the server or the cargo broker
Methods ==
    {"trade_good", "jettison_cargo", "refuel", "navigate", "warp", "jump",
     "supply_construction", "deliver_contract", "refresh_market", "refresh_shipyard",
     "survey", "transfer_cargo", "receive_cargo", "siphon", "extract_survey", "scrap"}

\* what each action does, in the order of its code: the assertion on is_in_transit,
\* set_flight_mode, orbit, dock, and its own request
steps_of(m) ==
    CASE m \in {"trade_good", "refuel", "supply_construction", "deliver_contract", "scrap"}
            -> << "check", "dock", "request" >>
      [] m \in {"navigate", "warp"} -> << "check", "set_flight_mode", "orbit", "request" >>
      [] m \in {"jump", "siphon"} -> << "check", "orbit", "request" >>
      [] m \in {"jettison_cargo", "refresh_market", "refresh_shipyard", "survey",
                "extract_survey"} -> << "check", "request" >>
      [] m = "transfer_cargo" -> << "check", "orbit", "broker" >>
      [] m = "receive_cargo" -> << "orbit", "check", "broker" >>

NavStatuses == {"IN_TRANSIT", "IN_ORBIT", "DOCKED"}

\* the ship at the call: its nav status and whether route.arrival is still ahead
ShipCalls ==
    { [status |-> "running", nav_status |-> ns, in_transit |-> t, step |-> 1, done |-> << >>] :
         ns \in NavStatuses, t \in BOOLEAN }

\* a step of the running action
NextStep == steps_of(args.method)[nav.step]
Running == args.fn = "ship_action" /\ nav.status = "running"

\* the step is done; remote: a request went to the server
Advance(kind, remote, nav_status) ==
    nav' = [nav EXCEPT !.done = Append(@, [kind |-> kind, remote |-> remote,
                                           in_transit |-> nav.in_transit]),
                       !.nav_status = nav_status,
                       !.step = @ + 1,
                       !.status = IF nav.step = Len(steps_of(args.method))
                                  THEN "returned" ELSE "running"]

\* is_in_transit: route.arrival >= now
is_in_transit == nav.in_transit

\* assert!(!self.is_in_transit())
AssertNotInTransit ==
    /\ Running
    /\ NextStep = "check"
    /\ IF is_in_transit
       THEN nav' = [nav EXCEPT !.status = "panicked",
                               !.done = Append(@, [kind |-> "check", remote |-> FALSE,
                                                   in_transit |-> TRUE])]
       ELSE Advance("check", FALSE, nav.nav_status)
    /\ UNCHANGED << args, result, svars, acvars, evars >>

\* orbit: nothing when already in orbit, else the orbit request and its nav
Orbit ==
    /\ Running
    /\ NextStep = "orbit"
    /\ IF nav.nav_status = "IN_ORBIT"
       THEN Advance("orbit", FALSE, nav.nav_status)
       ELSE Advance("orbit", TRUE, IF is_in_transit THEN nav.nav_status ELSE "IN_ORBIT")
    /\ UNCHANGED << args, result, svars, acvars, evars >>

\* dock: nothing when already docked, else the dock request and its nav
Dock ==
    /\ Running
    /\ NextStep = "dock"
    /\ IF nav.nav_status = "DOCKED"
       THEN Advance("dock", FALSE, nav.nav_status)
       ELSE Advance("dock", TRUE, IF is_in_transit THEN nav.nav_status ELSE "DOCKED")
    /\ UNCHANGED << args, result, svars, acvars, evars >>

\* the request of the action itself (set_flight_mode's patch, the action's get or post);
\* the cargo broker is local
Request ==
    /\ Running
    /\ NextStep \in {"set_flight_mode", "request", "broker"}
    /\ Advance(NextStep, NextStep # "broker", nav.nav_status)
    /\ UNCHANGED << args, result, svars, acvars, evars >>

\* time passes: the arrival time of the route is reached
Arrive ==
    /\ Running
    /\ nav.in_transit
    /\ nav' = [nav EXCEPT !.in_transit = FALSE]
    /\ UNCHANGED << args, result, svars, acvars, evars >>

InitShip ==
    /\ InitAgentRunning
    /\ ExecInit
    /\ fuel_hold = [s \in LogiShips |-> 0]
    /\ args \in { [fn |-> "ship_action", method |-> m] : m \in Methods }
    /\ result = NoResult
    /\ NoServices
    /\ nav \in { c \in ShipCalls : c.in_transit => c.nav_status = "IN_TRANSIT" }

NextShip ==
    \/ AssertNotInTransit
    \/ Orbit
    \/ Dock
    \/ Request
    \/ Arrive

SpecShip == InitShip /\ [][NextShip]_vars

---------------------------------------------------------------------------
(* Task generation: the value of a market refresh, the trade of a good     *)

\* ages of a market snapshot in seconds: the whole minutes up to 65, and the seconds
\* next to 15, 30 and 60 minutes
MarketAges == { 60 * m : m \in 0..65 } \cup {899, 901, 1799, 1801, 3599, 3601}

NeverSampled == [some |-> FALSE]
Sampled(age) == [some |-> TRUE, age |-> age]
NoTask == [task |-> FALSE]

\* a reward that also skips the snapshot of exactly 15 minutes
refresh_reward_skip_at_15(market_opt) ==
    IF ~market_opt.some THEN [task |-> TRUE, value |-> 5000]
    ELSE IF market_opt.age <= 900 THEN NoTask
    ELSE IF market_opt.age < 1800 THEN [task |-> TRUE, value |-> 1000]
    ELSE IF market_opt.age < 3600
    THEN [task |-> TRUE, value |-> 1000 + ((market_opt.age - 1800) * 4000) \div 1800]
    ELSE [task |-> TRUE, value |-> 5000]

\* generate_task_list: the reward of a market refresh by age_minutes = seconds / 60,
\* converted with "as i64" (the f64 value is the exact one at the ages of the model)
refresh_reward(market_opt) ==
    IF ~market_opt.some THEN [task |-> TRUE, value |-> 5000]
    ELSE IF market_opt.age < 900 THEN NoTask
    ELSE IF market_opt.age < 1800 THEN [task |-> TRUE, value |-> 1000]
    ELSE IF market_opt.age < 3600
    THEN [task |-> TRUE, value |-> 1000 + ((market_opt.age - 1800) * 4000) \div 1800]
    ELSE [task |-> TRUE, value |-> 5000]

\* generate_task_list: the refresh task of one market
refresh_market_task(is_probed, is_pure_exchange, market_opt) ==
    IF is_probed \/ is_pure_exchange THEN NoTask ELSE refresh_reward(market_opt)

RefreshArgs ==
    { [fn |-> "refresh_market", is_probed |-> p, is_pure_exchange |-> x, market_opt |-> m] :
         p \in BOOLEAN, x \in BOOLEAN,
         m \in {NeverSampled} \cup { Sampled(a) : a \in MarketAges } }

\* the markets that trade the good, in the order of the market list
TradeMarkets == << "A", "B" >>
MarketSet == { TradeMarkets[i] : i \in 1..Len(TradeMarkets) }

\* MarketSupply, in declaration order
SupplyLevels == {"LIMITED", "MODERATE", "HIGH"}
SupplyRank(s) ==
    CASE s = "SCARCE" -> 1 [] s = "LIMITED" -> 2 [] s = "MODERATE" -> 3
      [] s = "HIGH" -> 4 [] s = "ABUNDANT" -> 5

TradeVolumes == {40, 60}
CapacityCaps == {30, 50}
MinProfits == {2400, 2401}
EvoCaps == {40, 50}

\* what a market quotes for the good
PurchasePrice(m) == IF m = "A" THEN 100 ELSE 170
SellPrice(m) == IF m = "A" THEN 90 ELSE 160

NoTrade == [some |-> FALSE]
TradeGoods(m) ==
    { [some |-> TRUE, type |-> t, supply |-> s, activity |-> a, trade_volume |-> tv,
       purchase_price |-> PurchasePrice(m), sell_price |-> SellPrice(m)] :
         t \in {"IMPORT", "EXPORT", "EXCHANGE"}, s \in SupplyLevels,
         a \in {"STRONG", "WEAK"}, tv \in TradeVolumes }

\* buy side without the raised requirement of strong markets
buy_eligible_moderate(trade, req_constant_flow) ==
    CASE trade.type = "IMPORT" -> FALSE
      [] trade.type = "EXPORT" -> SupplyRank(trade.supply) >= SupplyRank("MODERATE")
      [] trade.type = "EXCHANGE" -> TRUE

\* generate_task_list: the filter of buy_trade_good
buy_eligible(trade, req_constant_flow) ==
    CASE trade.type = "IMPORT" -> FALSE
      [] trade.type = "EXPORT" ->
            IF ~req_constant_flow /\ trade.activity = "STRONG"
            THEN SupplyRank(trade.supply) >= SupplyRank("HIGH")
            ELSE SupplyRank(trade.supply) >= SupplyRank("MODERATE")
      [] trade.type = "EXCHANGE" -> TRUE

\* generate_task_list: the three filters of sell_trade_good
sell_eligible(m, trade, g) ==
    /\ IF g.evo_cap.some /\ g.evo_cap.market = m /\ trade.trade_volume >= g.evo_cap.cap
       THEN SupplyRank(trade.supply) <= SupplyRank("LIMITED")
       ELSE TRUE
    /\ CASE trade.type = "IMPORT" -> SupplyRank(trade.supply) <= SupplyRank("MODERATE")
         [] trade.type = "EXPORT" -> FALSE
         [] trade.type = "EXCHANGE" -> TRUE
    /\ g.permits.some => m \in g.permits.markets

\* positions of the markets that quote the good
Quoting(g) == { i \in 1..Len(TradeMarkets) : g.trades[TradeMarkets[i]].some }

\* min_by_key(purchase_price): the first of the cheapest
buy_trade_good(g) ==
    LET c == { i \in Quoting(g) : buy_eligible(g.trades[TradeMarkets[i]], g.req_constant_flow) }
        best == { i \in c : \A j \in c : g.trades[TradeMarkets[i]].purchase_price
                                           <= g.trades[TradeMarkets[j]].purchase_price }
    IN IF c = {} THEN 0 ELSE Min(best)

\* max_by_key(sell_price): the last of the dearest
sell_trade_good(g) ==
    LET c == { i \in Quoting(g) : sell_eligible(TradeMarkets[i], g.trades[TradeMarkets[i]], g) }
        best == { i \in c : \A j \in c : g.trades[TradeMarkets[i]].sell_price
                                           >= g.trades[TradeMarkets[j]].sell_price }
    IN IF c = {} THEN 0 ELSE CHOOSE i \in best : \A j \in best : j <= i

\* generate_task_list: the trade task of one good
trade_task(g) ==
    LET b == buy_trade_good(g)
        s == sell_trade_good(g)
    IN IF b = 0 \/ s = 0 THEN NoTask
       ELSE LET buy == g.trades[TradeMarkets[b]]
                sell == g.trades[TradeMarkets[s]]
                units == Min({buy.trade_volume, sell.trade_volume, g.capacity_cap})
                profit == (sell.sell_price - buy.purchase_price) * units
            IN IF profit >= g.min_profit
               THEN [task |-> TRUE, id |-> "trade_G", src |-> TradeMarkets[b],
                     dest |-> TradeMarkets[s], units |-> units, value |-> profit]
               ELSE NoTask

\* the settings the construction gives a good: an import allowlist, an import cap
Permits == { [some |-> FALSE] } \cup { [some |-> TRUE, markets |-> ms] : ms \in {{}, {"B"}} }
ImportCaps ==
    { [some |-> FALSE] } \cup { [some |-> TRUE, market |-> "B", cap |-> c] : c \in EvoCaps }

\* the calls for one good; a capped market imports the good
TradeArgs ==
    { g \in [fn : {"trade"}, trades : [MarketSet -> UNION { TradeGoods(m) : m \in MarketSet }
                                                      \cup {NoTrade}],
             req_constant_flow : BOOLEAN, permits : Permits, evo_cap : ImportCaps,
             capacity_cap : CapacityCaps, min_profit : MinProfits] :
        /\ \A m \in MarketSet : g.trades[m].some => g.trades[m] \in TradeGoods(m)
        /\ g.evo_cap.some =>
              (g.trades[g.evo_cap.market].some /\ g.trades[g.evo_cap.market].type = "IMPORT") }

\* the probe role covers only single-waypoint lists
probed_waypoints_single_only(cfg, ja) ==
    { <<ja[cfg[i].id], cfg[i].waypoints>> : i \in { k \in 1..Len(cfg) :
          /\ cfg[k].behaviour = "Probe"
          /\ Len(cfg[k].waypoints) = 1
          /\ job_assigned(ja, cfg[k].id) } }

\* probed_waypoints: (ship, waypoints of the role) of every Probe role that has a ship
probed_waypoints(cfg, ja) ==
    { <<ja[cfg[i].id], cfg[i].waypoints>> : i \in { k \in 1..Len(cfg) :
          /\ cfg[k].behaviour = "Probe"
          /\ job_assigned(ja, cfg[k].id) } }

\* LogisticTaskManager::probe_locations
probe_locations(cfg, ja) ==
    UNION { { w[2][i] : i \in 1..Len(w[2]) } : w \in probed_waypoints(cfg, ja) }

\* the configurations of the probe role: parked on one market, or going round two
ProbeConfigs ==
    { << Role("cmd", "CMD", "Logistics", <<>>, TRUE, FALSE, FALSE),
         Role("probe_w1", "PROBE", "Probe", wps, FALSE, FALSE, FALSE) >> :
        wps \in { <<"W1">>, <<"W2">>, <<"W1", "W2">> } }

\* the command ship and the probe; the probe has its role or none
ProbeAssignments ==
    { [r \in RoleIds |-> CASE r = "cmd" -> 1 [] r = "probe_w1" -> a [] OTHER -> 0] :
        a \in {0, 2} }

ProbeFleets ==
    { [s \in {1, 2} |-> IF s = 1 THEN [model |-> "CMD", wp |-> "W0", transit |-> FALSE]
                        ELSE [model |-> "PROBE", wp |-> w, transit |-> t]] :
        w \in {"W1", "W2"}, t \in BOOLEAN }

\* a market of the system, its kind and its snapshot, and the probes of the agent
MarketRefreshArgs ==
    { [fn |-> "market_refresh", market |-> m, is_pure_exchange |-> x, market_opt |-> o,
       cfg |-> c, ja |-> a, fleet |-> f] :
         m \in {"W1", "W2"}, x \in BOOLEAN,
         o \in {NeverSampled, Sampled(0), Sampled(900), Sampled(3600)},
         c \in ProbeConfigs, a \in ProbeAssignments, f \in ProbeFleets }

RefreshMarketTask ==
    /\ args.fn = "refresh_market"
    /\ result = NoResult
    /\ result' = [kind |-> "refresh_market",
                  task |-> refresh_market_task(args.is_probed, args.is_pure_exchange,
                                               args.market_opt)]
    /\ UNCHANGED << args, nav, svars, acvars, evars >>

\* generate_task_list: the refresh task of a market of the system
MarketRefresh ==
    /\ args.fn = "market_refresh"
    /\ result = NoResult
    /\ result' = [kind |-> "market_refresh",
                  task |-> refresh_market_task(args.market \in probe_locations(args.cfg, args.ja),
                                               args.is_pure_exchange, args.market_opt)]
    /\ UNCHANGED << args, nav, svars, acvars, evars >>

TradeTask ==
    /\ args.fn = "trade"
    /\ result = NoResult
    /\ result' = [kind |-> "trade", task |-> trade_task(args)]
    /\ UNCHANGED << args, nav, svars, acvars, evars >>

InitTasks ==
    /\ InitAgentRunning
    /\ ExecInit
    /\ fuel_hold = [s \in LogiShips |-> 0]
    /\ args \in RefreshArgs \cup TradeArgs \cup MarketRefreshArgs
    /\ result = NoResult
    /\ NoServices
    /\ nav = NoNav

NextTasks ==
    \/ RefreshMarketTask
    \/ MarketRefresh
    \/ TradeTask

SpecTasks == InitTasks /\ [][NextTasks]_vars

---------------------------------------------------------------------------
(* take_tasks as a function of the task list, the tasks in progress, the    *)
(* ship's LogisticsScriptConfig and the planner's answer                    *)

VisitLocation(id, waypoint, action, value) ==
    [id |-> id, kind |-> "VisitLocation", waypoint |-> waypoint, action |-> action,
     value |-> value]

TransportCargo(id, src, dest, src_action, dest_action, value) ==
    [id |-> id, kind |-> "TransportCargo", src |-> src, dest |-> dest,
     src_action |-> src_action, dest_action |-> dest_action, value |-> value]

\* the tasks of a system in the order generate_task_list pushes them (ship purchase trip,
\* market refreshes, shipyard refreshes, trades), and a construction delivery as the
\* Task type and is_task_allowed know it; refresh and profit are the values that vary
AllTasks(refresh, profit) ==
    << VisitLocation("buyships_W2", "W2", "TryBuyShips", 200000),
       VisitLocation("refreshmarket_W1", "W1", "RefreshMarket", refresh),
       VisitLocation("refreshshipyard_W2", "W2", "RefreshShipyard", 5000),
       TransportCargo("trade_G", "W1", "W2", "BuyGoods", "SellGoods", profit),
       TransportCargo("construction_FAB_MATS", "W1", "JG", "BuyGoods",
                      "DeliverConstruction", 3000) >>

TaskIndexes == 1..5
TakeTaskIds == { AllTasks(1000, 2400)[i].id : i \in TaskIndexes }

\* the waypoints of a task
TaskWaypoints(task) ==
    IF task.kind = "VisitLocation" THEN {task.waypoint} ELSE {task.src, task.dest}

\* the allowlist check looks at the source of a transport only
is_task_allowed_src_only(task, config) ==
    /\ config.waypoint_allowlist.some =>
          IF task.kind = "VisitLocation"
          THEN task.waypoint \in config.waypoint_allowlist.set
          ELSE task.src \in config.waypoint_allowlist.set
    /\ IF task.kind = "VisitLocation"
       THEN CASE task.action \in {"RefreshMarket", "RefreshShipyard"}
                    -> config.allow_market_refresh
              [] task.action = "TryBuyShips" -> config.allow_shipbuying
              [] OTHER -> TRUE
       ELSE IF task.dest_action = "DeliverConstruction"
            THEN config.allow_construction ELSE TRUE

\* is_task_allowed
is_task_allowed(task, config) ==
    /\ config.waypoint_allowlist.some =>
          IF task.kind = "VisitLocation"
          THEN task.waypoint \in config.waypoint_allowlist.set
          ELSE /\ task.src \in config.waypoint_allowlist.set
               /\ task.dest \in config.waypoint_allowlist.set
    /\ IF task.kind = "VisitLocation"
       THEN CASE task.action \in {"RefreshMarket", "RefreshShipyard"}
                    -> config.allow_market_refresh
              [] task.action = "TryBuyShips" -> config.allow_shipbuying
              [] OTHER -> TRUE
       ELSE IF task.dest_action = "DeliverConstruction"
            THEN config.allow_construction ELSE TRUE

\* take_tasks: in_progress_tasks.retain(|_k, v| v.1 != ship_symbol)
retain_others(ip, ship_symbol) ==
    [id \in TakeTaskIds |-> IF ip[id] = ship_symbol THEN 0 ELSE ip[id]]

\* take_tasks: the tasks neither in progress nor outlawed by the config, in list order
RECURSIVE filter_available(_, _, _, _)
filter_available(all_tasks, ip, config, n) ==
    IF n = 0 THEN << >>
    ELSE LET rest == filter_available(all_tasks, ip, config, n - 1)
             task == all_tasks[n]
         IN IF ip[task.id] = 0 /\ is_task_allowed(task, config)
            THEN Append(rest, task) ELSE rest

\* the first task of the list, whatever its value
first_task(tasks, n, highest_value, highest) ==
    IF Len(tasks) = 0 THEN 0 ELSE 1

\* take_tasks: the loop over available_tasks that keeps the task whose value is
\* greater than the highest so far, starting from 0 (0: no task found)
RECURSIVE highest_value_from(_, _, _, _)
highest_value_from(tasks, n, highest_value, highest) ==
    IF n > Len(tasks) THEN highest
    ELSE IF tasks[n].value > highest_value
    THEN highest_value_from(tasks, n + 1, tasks[n].value, n)
    ELSE highest_value_from(tasks, n + 1, highest_value, highest)

\* take_tasks: the scheduled actions pushed for a force-assigned task
forced_actions(task) ==
    IF task.kind = "VisitLocation"
    THEN << ScheduledAction(task.waypoint, task.action, task.id, TRUE) >>
    ELSE << ScheduledAction(task.src, task.src_action, task.id, FALSE),
            ScheduledAction(task.dest, task.dest_action, task.id, TRUE) >>

\* run_planner for one ship: a schedule of none, one or two of the tasks it was given,
\* each task's actions in order, and the assignment of the scheduled tasks
PlannerAnswers(tasks) ==
    LET n == Len(tasks)
    IN {[actions |-> << >>, assigned |-> {}]}
       \cup { [actions |-> forced_actions(tasks[i]), assigned |-> {tasks[i].id}] : i \in 1..n }
       \cup { [actions |-> forced_actions(tasks[i]) \o forced_actions(tasks[j]),
               assigned |-> {tasks[i].id, tasks[j].id}] :
                 <<i, j>> \in { q \in (1..n) \X (1..n) : q[1] < q[2] } }

\* take_tasks for the planner's answer: the schedule returned and in_progress_tasks after
take_tasks(ship_symbol, all_tasks, ip, config, answer) ==
    LET ip1 == retain_others(ip, ship_symbol)
        available_tasks_ == filter_available(all_tasks, ip1, config, Len(all_tasks))
        planned == IF config.use_planner THEN answer
                   ELSE [actions |-> << >>, assigned |-> {}]
        forced == IF Len(planned.actions) = 0
                  THEN highest_value_from(available_tasks_, 1, 0, 0) ELSE 0
        actions == IF forced = 0 THEN planned.actions
                   ELSE forced_actions(available_tasks_[forced])
        assigned == IF forced = 0 THEN planned.assigned
                    ELSE planned.assigned \cup {available_tasks_[forced].id}
    IN [kind |-> "take_tasks",
        available |-> available_tasks_,
        planned |-> planned,
        forced |-> forced,
        actions |-> actions,
        in_progress |-> [id \in TakeTaskIds |-> IF id \in assigned THEN ship_symbol
                                                ELSE ip1[id]]]

\* the sublist of the tasks at the indexes of present
RECURSIVE sublist(_, _, _)
sublist(tasks, present, n) ==
    IF n = 0 THEN << >>
    ELSE IF n \in present THEN Append(sublist(tasks, present, n - 1), tasks[n])
    ELSE sublist(tasks, present, n - 1)

Allowlists == {[some |-> FALSE, set |-> {}], [some |-> TRUE, set |-> {"W2"}],
               [some |-> TRUE, set |-> {"W1", "W2"}]}

LogisticsScriptConfigs ==
    [waypoint_allowlist : Allowlists, allow_market_refresh : BOOLEAN,
     allow_shipbuying : BOOLEAN, allow_construction : BOOLEAN, use_planner : BOOLEAN]

\* in_progress_tasks at the call: at most one task in progress, for this or another ship
InProgressAtCall ==
    { ip \in [TakeTaskIds -> {0, 1, 3}] : Cardinality({ id \in TakeTaskIds : ip[id] # 0 }) <= 1 }

TakeArgs ==
    { [fn |-> "take_tasks", ship_symbol |-> 1, all_tasks |-> sublist(AllTasks(r, v), pr, 5),
       in_progress |-> ip, config |-> c] :
         r \in {1000, 5000}, v \in {2400, 5000}, pr \in SUBSET TaskIndexes,
         ip \in InProgressAtCall, c \in LogisticsScriptConfigs }

TakeTasksCall ==
    /\ args.fn = "take_tasks"
    /\ result = NoResult
    /\ \E answer \in PlannerAnswers(filter_available(args.all_tasks,
                        retain_others(args.in_progress, args.ship_symbol), args.config,
                        Len(args.all_tasks))) :
          result' = take_tasks(args.ship_symbol, args.all_tasks, args.in_progress,
                               args.config, answer)
    /\ UNCHANGED << args, nav, svars, acvars, evars >>

InitTake ==
    /\ InitAgentRunning
    /\ ExecInit
    /\ fuel_hold = [s \in LogiShips |-> 0]
    /\ args \in TakeArgs
    /\ result = NoResult
    /\ NoServices
    /\ nav = NoNav

NextTake == TakeTasksCall

SpecTake == InitTake /\ [][NextTake]_vars

---------------------------------------------------------------------------
(* generate_task_list: the construction of the jump gate and the task list  *)

\* the construction site of the jump gate as the universe has it: no data, or the
\* fulfilled units of its two materials; complete when both are
MaterialRequired(good) == IF good = "FAB_MATS" THEN 4000 ELSE 1200
NoConstruction == [some |-> FALSE]
Constructions ==
    {NoConstruction} \cup
    { [some |-> TRUE, is_complete |-> (f = 4000 /\ a = 1200),
       fulfilled |-> [good \in {"FAB_MATS", "ADVANCED_CIRCUITRY"} |->
                         IF good = "FAB_MATS" THEN f ELSE a]] :
        f \in {0, 4000}, a \in {0, 1200} }

\* generate_task_list: the construction it works on
construction_of(c, no_gate_mode) ==
    IF no_gate_mode \/ ~c.some THEN NoConstruction
    ELSE IF c.is_complete THEN NoConstruction ELSE c

Incomplete(c, good) == c.some /\ c.fulfilled[good] < MaterialRequired(good)

\* search_waypoints by the imports and exports of the model's markets: A makes FAB_MATS
\* of IRON and QUARTZ_SAND, B houses the other industries (each search finds a market,
\* as generate_task_list asserts)
fab_mat_markets == {"A"}
smeltery_markets == {"B"}
adv_circuit_markets == {"B"}
electronics_markets == {"B"}
microprocessor_markets == {"B"}

\* generate_task_list: good_import_permits
good_import_permits(c, good) ==
    LET fab == Incomplete(c, "FAB_MATS")
        adv == Incomplete(c, "ADVANCED_CIRCUITRY")
    IN CASE adv /\ good = "ADVANCED_CIRCUITRY" -> [some |-> TRUE, markets |-> {}]
         [] adv /\ good \in {"ELECTRONICS", "MICROPROCESSORS"}
               -> [some |-> TRUE, markets |-> adv_circuit_markets]
         [] adv /\ good \in {"SILICON_CRYSTALS", "COPPER"}
               -> [some |-> TRUE, markets |-> electronics_markets \cup microprocessor_markets]
         [] adv /\ good = "COPPER_ORE" -> [some |-> TRUE, markets |-> smeltery_markets]
         [] fab /\ good = "FAB_MATS" -> [some |-> TRUE, markets |-> {}]
         [] fab /\ good \in {"IRON", "QUARTZ_SAND"}
               -> [some |-> TRUE, markets |-> fab_mat_markets]
         [] fab /\ good = "IRON_ORE" -> [some |-> TRUE, markets |-> smeltery_markets]
         [] OTHER -> [some |-> FALSE]

\* generate_task_list: good_req_constant_flow
good_req_constant_flow(c, good) ==
    \/ Incomplete(c, "FAB_MATS") /\ good \in {"IRON_ORE", "QUARTZ_SAND", "IRON"}
    \/ /\ Incomplete(c, "ADVANCED_CIRCUITRY")
       /\ good \in {"ELECTRONICS", "MICROPROCESSORS", "SILICON_CRYSTALS", "COPPER",
                    "COPPER_ORE"}

\* generate_task_list: market_capped_import
market_capped_import(c, good) ==
    IF Incomplete(c, "FAB_MATS") /\ good = "IRON"
    THEN [some |-> TRUE, market |-> "A", cap |-> 120]
    ELSE [some |-> FALSE]

\* the goods the markets of the model quote, in the order of the BTreeSet
QuotedGoods == << "FAB_MATS", "IRON" >>

Quote(type, supply, activity, tv, purchase_price, sell_price) ==
    [some |-> TRUE, type |-> type, supply |-> supply, activity |-> activity,
     trade_volume |-> tv, purchase_price |-> purchase_price, sell_price |-> sell_price]

\* the markets' quotes: A exports FAB_MATS and imports IRON, B the reverse
Quotes(export_supply, activity, import_supply, import_tv) ==
    [good \in {"FAB_MATS", "IRON"} |->
        IF good = "FAB_MATS"
        THEN [m \in MarketSet |->
                 IF m = "A" THEN Quote("EXPORT", export_supply, activity, 60, 100, 90)
                 ELSE Quote("IMPORT", import_supply, "WEAK", 40, 170, 160)]
        ELSE [m \in MarketSet |->
                 IF m = "B" THEN Quote("EXPORT", export_supply, activity, 60, 50, 45)
                 ELSE Quote("IMPORT", import_supply, "WEAK", import_tv, 90, 80)]]

\* generate_task_list: the trade task of a good under the settings of the construction
good_trade(a, c, good) ==
    LET t == trade_task([trades |-> a.quotes[good],
                         req_constant_flow |-> good_req_constant_flow(c, good),
                         permits |-> good_import_permits(c, good),
                         evo_cap |-> market_capped_import(c, good),
                         capacity_cap |-> a.capacity_cap, min_profit |-> a.min_profit])
    IN IF t.task
       THEN << TransportCargo("trade_" \o good, t.src, t.dest, "BuyGoods", "SellGoods",
                              t.value) >>
       ELSE << >>

\* generate_task_list: the tasks pushed, in order: the ship purchase trip, the refresh
\* of the markets, the refresh of the shipyards, the trades of the goods
generate_task_list(a) ==
    LET c == construction_of(a.construction, a.no_gate_mode)
        refresh == refresh_market_task(FALSE, FALSE, a.market_opt)
    IN (IF a.shipyard_task_waypoint THEN << VisitLocation("buyships_A", "A", "TryBuyShips", 200000) >>
        ELSE << >>)
       \o (IF refresh.task
           THEN << VisitLocation("refreshmarket_A", "A", "RefreshMarket", refresh.value) >>
           ELSE << >>)
       \o (IF a.requires_visit
           THEN << VisitLocation("refreshshipyard_A", "A", "RefreshShipyard", 5000) >>
           ELSE << >>)
       \o good_trade(a, c, QuotedGoods[1])
       \o good_trade(a, c, QuotedGoods[2])

TaskListArgs ==
    { [fn |-> "generate_task_list", construction |-> c, no_gate_mode |-> n,
       quotes |-> Quotes(xs, act, is, tv), capacity_cap |-> 50, min_profit |-> 1,
       shipyard_task_waypoint |-> b, requires_visit |-> b, market_opt |-> o] :
         c \in Constructions, n \in BOOLEAN, xs \in {"MODERATE", "HIGH"},
         act \in {"STRONG", "WEAK"}, is \in {"LIMITED", "MODERATE"}, tv \in {60, 120},
         b \in BOOLEAN, o \in {NeverSampled, Sampled(0)} }

GenerateTaskList ==
    /\ args.fn = "generate_task_list"
    /\ result = NoResult
    /\ result' = [kind |-> "generate_task_list", tasks |-> generate_task_list(args)]
    /\ UNCHANGED << args, nav, svars, acvars, evars >>

InitTaskList ==
    /\ InitAgentRunning
    /\ ExecInit
    /\ fuel_hold = [s \in LogiShips |-> 0]
    /\ args \in TaskListArgs
    /\ result = NoResult
    /\ NoServices
    /\ nav = NoNav

NextTaskList == GenerateTaskList

SpecTaskList == InitTaskList /\ [][NextTaskList]_vars

---------------------------------------------------------------------------
(* Exploration reservations: get_probe_jumpgate_reservation,                *)
(* clear_probe_jumpgate_reservation, get_explorer_reservation               *)

Probes == {"P1", "P2"}
Explorers == {"E1", "E2"}
\* the jump gates, on a line: the distance is the difference of the positions
Gates == {"G0", "G1", "G2", "G3"}
GatePos(g) == CASE g = "G0" -> 0 [] g = "G1" -> 1 [] g = "G2" -> 2 [] g = "G3" -> 3
\* the starter systems, on a line as well
StarterSystems == {"S1", "S2"}
SystemPos(x) == CASE x = "S1" -> 1 [] x = "S2" -> 2
Abs(i) == IF i < 0 THEN 0 - i ELSE i

\* the values of a reservation map
Reserved(m) == { m[k] : k \in DOMAIN m } \ {None}

\* the closest uncharted gate, reserved or not
probe_target_any_uncharted(loc, charted, reservations) ==
    LET c == { g \in Gates \ {loc} : g \notin charted }
    IN { g \in c : \A h \in c : Abs(GatePos(g) - GatePos(loc)) <= Abs(GatePos(h) - GatePos(loc)) }

\* get_probe_jumpgate_reservation: the gates reachable from the gate of the ship's system
\* (dijkstra_all leaves the start out), sorted by distance; the first that is neither
\* charted nor reserved (one of the closest: the order among equals is not fixed)
probe_target(loc, charted, reservations) ==
    LET c == { g \in Gates \ {loc} : g \notin charted /\ g \notin Reserved(reservations) }
    IN { g \in c : \A h \in c : Abs(GatePos(g) - GatePos(loc)) <= Abs(GatePos(h) - GatePos(loc)) }

\* get_explorer_reservation: the starter systems (the ship's own at distance 0), sorted
\* by distance; the first that is not reserved
explorer_target(loc, reservations) ==
    LET c == { x \in StarterSystems : x \notin Reserved(reservations) }
    IN { x \in c : \A y \in c : Abs(SystemPos(x) - SystemPos(loc)) <= Abs(SystemPos(y) - SystemPos(loc)) }

RsvObsNone == [kind |-> "none"]

RsvInit ==
    [status |-> "running",
     probe_jumpgate_reservations |-> [p \in Probes |-> None],
     db_probe |-> [p \in Probes |-> None],
     explorer_reservations |-> [e \in Explorers |-> None],
     db_explorer |-> [e \in Explorers |-> None],
     probe_reserve_mutex |-> None,
     explorer_reserve_mutex |-> None,
     charted |-> {"G0"},
     loc |-> [k \in Probes \cup Explorers |-> IF k \in Probes THEN "G0" ELSE "S1"],
     pc |-> [k \in Probes \cup Explorers |-> "idle"],
     robs |-> RsvObsNone]

\* get_probe_jumpgate_reservation: the existing reservation is returned; without one the
\* caller goes for the mutex
ProbeGet(p) ==
    /\ rsv.status = "running"
    /\ rsv.pc[p] = "idle"
    /\ LET existing == rsv.probe_jumpgate_reservations[p]
       IN IF existing # None
          THEN rsv' = [rsv EXCEPT !.robs = [kind |-> "existing", ship |-> p, value |-> existing]]
          ELSE rsv' = [rsv EXCEPT !.pc[p] = "lock", !.robs = RsvObsNone]
    /\ UNCHANGED << args, result, nav, ep, lk, acvars, evars >>

\* probe_reserve_mutex_guard.lock().await
ProbeLock(p) ==
    /\ rsv.status = "running"
    /\ rsv.pc[p] = "lock"
    /\ rsv.probe_reserve_mutex = None
    /\ rsv' = [rsv EXCEPT !.probe_reserve_mutex = p, !.pc[p] = "graph", !.robs = RsvObsNone]
    /\ UNCHANGED << args, result, nav, ep, lk, acvars, evars >>

\* after jumpgate_graph().await: find the target and insert it, or return None
ProbeReserve(p) ==
    /\ rsv.status = "running"
    /\ rsv.pc[p] = "graph"
    /\ LET targets == probe_target(rsv.loc[p], rsv.charted, rsv.probe_jumpgate_reservations)
       IN IF targets = {}
          THEN rsv' = [rsv EXCEPT !.probe_reserve_mutex = None, !.pc[p] = "idle",
                                  !.robs = [kind |-> "none_left", ship |-> p]]
          ELSE \E g \in targets :
                  rsv' = [rsv EXCEPT !.probe_jumpgate_reservations[p] = g,
                                     !.pc[p] = "save",
                                     !.robs = [kind |-> "reserved", ship |-> p, value |-> g]]
    /\ UNCHANGED << args, result, nav, ep, lk, acvars, evars >>

\* save_probe_jumpgate_reservations(..).await, return of the target, end of the lock
ProbeSave(p) ==
    /\ rsv.status = "running"
    /\ rsv.pc[p] = "save"
    /\ rsv' = [rsv EXCEPT !.db_probe = rsv.probe_jumpgate_reservations,
                          !.probe_reserve_mutex = None,
                          !.pc[p] = "idle",
                          !.robs = [kind |-> "returned", ship |-> p,
                                    value |-> rsv.probe_jumpgate_reservations[p]]]
    /\ UNCHANGED << args, result, nav, ep, lk, acvars, evars >>

\* the probe reaches the gate it reserved
ProbeArrive(p) ==
    /\ rsv.status = "running"
    /\ rsv.pc[p] = "idle"
    /\ rsv.probe_jumpgate_reservations[p] # None
    /\ rsv.loc[p] # rsv.probe_jumpgate_reservations[p]
    /\ rsv' = [rsv EXCEPT !.loc[p] = rsv.probe_jumpgate_reservations[p], !.robs = RsvObsNone]
    /\ UNCHANGED << args, result, nav, ep, lk, acvars, evars >>

\* the universe learns all the connections of a gate a ship of the fleet is at
Chart(g) ==
    /\ rsv.status = "running"
    /\ g \notin rsv.charted
    /\ \E k \in Probes : rsv.loc[k] = g
    /\ rsv' = [rsv EXCEPT !.charted = @ \cup {g}, !.robs = RsvObsNone]
    /\ UNCHANGED << args, result, nav, ep, lk, acvars, evars >>

\* clear_probe_jumpgate_reservation, called by the probe at its gate: the assertion that
\* the gate is charted, the removal
ProbeClear(p) ==
    /\ rsv.status = "running"
    /\ rsv.pc[p] = "idle"
    /\ rsv.probe_jumpgate_reservations[p] # None
    /\ rsv.loc[p] = rsv.probe_jumpgate_reservations[p]
    /\ IF rsv.probe_jumpgate_reservations[p] \in rsv.charted
       THEN rsv' = [rsv EXCEPT !.probe_jumpgate_reservations[p] = None,
                               !.pc[p] = "clear_save",
                               !.robs = [kind |-> "cleared", ship |-> p]]
       ELSE rsv' = [rsv EXCEPT !.pc[p] = "panicked", !.robs = RsvObsNone]
    /\ UNCHANGED << args, result, nav, ep, lk, acvars, evars >>

\* clear_probe_jumpgate_reservation: save_probe_jumpgate_reservations(..).await
ProbeClearSave(p) ==
    /\ rsv.status = "running"
    /\ rsv.pc[p] = "clear_save"
    /\ rsv' = [rsv EXCEPT !.db_probe = rsv.probe_jumpgate_reservations, !.pc[p] = "idle",
                          !.robs = RsvObsNone]
    /\ UNCHANGED << args, result, nav, ep, lk, acvars, evars >>

\* get_explorer_reservation: the existing reservation, or on to the mutex
ExplorerGet(e) ==
    /\ rsv.status = "running"
    /\ rsv.pc[e] = "idle"
    /\ LET existing == rsv.explorer_reservations[e]
       IN IF existing # None
          THEN rsv' = [rsv EXCEPT !.robs = [kind |-> "existing", ship |-> e, value |-> existing]]
          ELSE rsv' = [rsv EXCEPT !.pc[e] = "lock", !.robs = RsvObsNone]
    /\ UNCHANGED << args, result, nav, ep, lk, acvars, evars >>

\* explorer_reserve_mutex_guard.lock().await
ExplorerLock(e) ==
    /\ rsv.status = "running"
    /\ rsv.pc[e] = "lock"
    /\ rsv.explorer_reserve_mutex = None
    /\ rsv' = [rsv EXCEPT !.explorer_reserve_mutex = e, !.pc[e] = "graph", !.robs = RsvObsNone]
    /\ UNCHANGED << args, result, nav, ep, lk, acvars, evars >>

\* after warp_jump_graph().await: find the target and insert it, or return None
ExplorerReserve(e) ==
    /\ rsv.status = "running"
    /\ rsv.pc[e] = "graph"
    /\ LET targets == explorer_target(rsv.loc[e], rsv.explorer_reservations)
       IN IF targets = {}
          THEN rsv' = [rsv EXCEPT !.explorer_reserve_mutex = None, !.pc[e] = "idle",
                                  !.robs = [kind |-> "none_left", ship |-> e]]
          ELSE \E x \in targets :
                  rsv' = [rsv EXCEPT !.explorer_reservations[e] = x,
                                     !.pc[e] = "save",
                                     !.robs = [kind |-> "reserved", ship |-> e, value |-> x]]
    /\ UNCHANGED << args, result, nav, ep, lk, acvars, evars >>

\* save_explorer_reservations(..).await, return of the target, end of the lock
ExplorerSave(e) ==
    /\ rsv.status = "running"
    /\ rsv.pc[e] = "save"
    /\ rsv' = [rsv EXCEPT !.db_explorer = rsv.explorer_reservations,
                          !.explorer_reserve_mutex = None,
                          !.pc[e] = "idle",
                          !.robs = [kind |-> "returned", ship |-> e,
                                    value |-> rsv.explorer_reservations[e]]]
    /\ UNCHANGED << args, result, nav, ep, lk, acvars, evars >>

\* the explorer moves to another system
ExplorerMove(e) ==
    /\ rsv.status = "running"
    /\ rsv.pc[e] = "idle"
    /\ \E x \in StarterSystems \ {rsv.loc[e]} :
          rsv' = [rsv EXCEPT !.loc[e] = x, !.robs = RsvObsNone]
    /\ UNCHANGED << args, result, nav, ep, lk, acvars, evars >>

InitReserve ==
    /\ InitAgentRunning
    /\ ExecInit
    /\ fuel_hold = [s \in LogiShips |-> 0]
    /\ args = [fn |-> "none"]
    /\ result = NoResult
    /\ nav = NoNav
    /\ rsv = RsvInit
    /\ ep = NoEp
    /\ lk = NoLk

NextReserve ==
    \/ \E p \in Probes : ProbeGet(p)
    \/ \E p \in Probes : ProbeLock(p)
    \/ \E p \in Probes : ProbeReserve(p)
    \/ \E p \in Probes : ProbeSave(p)
    \/ \E p \in Probes : ProbeArrive(p)
    \/ \E g \in Gates : Chart(g)
    \/ \E p \in Probes : ProbeClear(p)
    \/ \E p \in Probes : ProbeClearSave(p)
    \/ \E e \in Explorers : ExplorerGet(e)
    \/ \E e \in Explorers : ExplorerLock(e)
    \/ \E e \in Explorers : ExplorerReserve(e)
    \/ \E e \in Explorers : ExplorerSave(e)
    \/ \E e \in Explorers : ExplorerMove(e)

SpecReserve == InitReserve /\ [][NextReserve]_vars

---------------------------------------------------------------------------
(* The two mutexes: try_buy_ships_lock and take_tasks_lock                  *)

\* the callers of try_buy_ships: the startup routine, the controller loop, and the
\* logistics executors (from take_tasks, and for a TryBuyShips action of a schedule)
Executors == {"X1", "X2"}
LockCallers == {"agent", "ctrl"} \cup Executors

\* a timeout that lets the waiter into the section it waited for
after_timeout_enter(section) == section

\* try_buy_ships_lock, take_tasks_lock: Err of tokio::time::timeout is a panic
after_timeout(section) == "panicked"

\* a try_buy_ships that asks the task manager for tasks before it returns
in_try_buy_ships_take_tasks(caller) == IF caller \in Executors THEN "take_call" ELSE "buy_end"

\* try_buy_ships: nothing in its body takes the take_tasks mutex
in_try_buy_ships(caller) == "buy_end"

LkInit ==
    [status |-> "running",
     try_buy_ships_mutex |-> None,
     take_tasks_mutex |-> None,
     pc |-> [c \in LockCallers |-> IF c = "agent" THEN "buy_call" ELSE "idle"],
     in_take_tasks |-> [c \in LockCallers |-> FALSE],
     entered |-> None]

\* the guards a caller holds are dropped when its task panics
Unwind(c) ==
    [lk EXCEPT !.pc[c] = "panicked",
               !.in_take_tasks[c] = FALSE,
               !.entered = None,
               !.try_buy_ships_mutex = IF @ = c THEN None ELSE @,
               !.take_tasks_mutex = IF @ = c THEN None ELSE @]

\* controller_tick, and an executor's TryBuyShips action: try_buy_ships is called
CallTryBuyShips(c) ==
    /\ lk.status = "running"
    /\ c \in {"ctrl"} \cup Executors
    /\ lk.pc[c] = "idle"
    /\ lk' = [lk EXCEPT !.pc[c] = "buy_call", !.entered = None]
    /\ UNCHANGED << args, result, nav, rsv, ep, acvars, evars >>

\* logistics::run: take_tasks is called
CallTakeTasks(c) ==
    /\ lk.status = "running"
    /\ c \in Executors
    /\ lk.pc[c] = "idle"
    /\ lk' = [lk EXCEPT !.pc[c] = "take_call", !.entered = None]
    /\ UNCHANGED << args, result, nav, rsv, ep, acvars, evars >>

\* try_buy_ships_lock: try_lock
BuyTryLock(c) ==
    /\ lk.status = "running"
    /\ lk.pc[c] = "buy_call"
    /\ IF lk.try_buy_ships_mutex = None
       THEN lk' = [lk EXCEPT !.try_buy_ships_mutex = c, !.pc[c] = "buy_body", !.entered = c]
       ELSE lk' = [lk EXCEPT !.pc[c] = "buy_wait", !.entered = None]
    /\ UNCHANGED << args, result, nav, rsv, ep, acvars, evars >>

\* try_buy_ships_lock: timeout(30 s, lock()) is Ok
BuyLockAcquired(c) ==
    /\ lk.status = "running"
    /\ lk.pc[c] = "buy_wait"
    /\ lk.try_buy_ships_mutex = None
    /\ lk' = [lk EXCEPT !.try_buy_ships_mutex = c, !.pc[c] = "buy_body", !.entered = c]
    /\ UNCHANGED << args, result, nav, rsv, ep, acvars, evars >>

\* try_buy_ships_lock: timeout(30 s, lock()) is Err
BuyLockTimeout(c) ==
    /\ lk.status = "running"
    /\ lk.pc[c] = "buy_wait"
    /\ lk.try_buy_ships_mutex # None
    /\ lk' = IF after_timeout("buy_body") = "panicked" THEN Unwind(c)
             ELSE [lk EXCEPT !.pc[c] = after_timeout("buy_body"), !.entered = c]
    /\ UNCHANGED << args, result, nav, rsv, ep, acvars, evars >>

\* try_buy_ships: the body, up to what it does last
BuyBody(c) ==
    /\ lk.status = "running"
    /\ lk.pc[c] = "buy_body"
    /\ lk' = [lk EXCEPT !.pc[c] = in_try_buy_ships(c), !.entered = None]
    /\ UNCHANGED << args, result, nav, rsv, ep, acvars, evars >>

\* try_buy_ships returns: its guard is dropped; back in take_tasks or at the caller
BuyReturn(c) ==
    /\ lk.status = "running"
    /\ lk.pc[c] = "buy_end"
    /\ lk' = [lk EXCEPT !.try_buy_ships_mutex = IF @ = c THEN None ELSE @,
                        !.pc[c] = IF lk.in_take_tasks[c] THEN "take_rest"
                                  ELSE IF c = "agent" THEN "done" ELSE "idle",
                        !.entered = None]
    /\ UNCHANGED << args, result, nav, rsv, ep, acvars, evars >>

\* take_tasks_lock: try_lock
TakeTryLock(c) ==
    /\ lk.status = "running"
    /\ lk.pc[c] = "take_call"
    /\ IF lk.take_tasks_mutex = None
       THEN lk' = [lk EXCEPT !.take_tasks_mutex = c, !.pc[c] = "take_body",
                             !.in_take_tasks[c] = TRUE, !.entered = c]
       ELSE lk' = [lk EXCEPT !.pc[c] = "take_wait", !.entered = None]
    /\ UNCHANGED << args, result, nav, rsv, ep, acvars, evars >>

\* take_tasks_lock: timeout(20 min, lock()) is Ok
TakeLockAcquired(c) ==
    /\ lk.status = "running"
    /\ lk.pc[c] = "take_wait"
    /\ lk.take_tasks_mutex = None
    /\ lk' = [lk EXCEPT !.take_tasks_mutex = c, !.pc[c] = "take_body",
                        !.in_take_tasks[c] = TRUE, !.entered = c]
    /\ UNCHANGED << args, result, nav, rsv, ep, acvars, evars >>

\* take_tasks_lock: timeout(20 min, lock()) is Err
TakeLockTimeout(c) ==
    /\ lk.status = "running"
    /\ lk.pc[c] = "take_wait"
    /\ lk.take_tasks_mutex # None
    /\ lk' = IF after_timeout("take_body") = "panicked" THEN Unwind(c)
             ELSE [lk EXCEPT !.pc[c] = after_timeout("take_body"),
                             !.in_take_tasks[c] = TRUE, !.entered = c]
    /\ UNCHANGED << args, result, nav, rsv, ep, acvars, evars >>

\* take_tasks: the cleanup, then generate_task_list with buy_ships = true calls
\* try_buy_ships
TakeBody(c) ==
    /\ lk.status = "running"
    /\ lk.pc[c] = "take_body"
    /\ lk' = [lk EXCEPT !.pc[c] = "buy_call", !.entered = None]
    /\ UNCHANGED << args, result, nav, rsv, ep, acvars, evars >>

\* take_tasks: the rest of its body and the return: its guard is dropped
TakeReturnLock(c) ==
    /\ lk.status = "running"
    /\ lk.pc[c] = "take_rest"
    /\ lk' = [lk EXCEPT !.take_tasks_mutex = IF @ = c THEN None ELSE @,
                        !.in_take_tasks[c] = FALSE,
                        !.pc[c] = "idle", !.entered = None]
    /\ UNCHANGED << args, result, nav, rsv, ep, acvars, evars >>

InitLocks ==
    /\ InitAgentRunning
    /\ ExecInit
    /\ fuel_hold = [s \in LogiShips |-> 0]
    /\ args = [fn |-> "none"]
    /\ result = NoResult
    /\ nav = NoNav
    /\ rsv = NoRsv
    /\ ep = NoEp
    /\ lk = LkInit

NextLocks ==
    \/ \E c \in LockCallers : CallTryBuyShips(c)
    \/ \E c \in LockCallers : CallTakeTasks(c)
    \/ \E c \in LockCallers : BuyTryLock(c)
    \/ \E c \in LockCallers : BuyLockAcquired(c)
    \/ \E c \in LockCallers : BuyLockTimeout(c)
    \/ \E c \in LockCallers : BuyBody(c)
    \/ \E c \in LockCallers : BuyReturn(c)
    \/ \E c \in LockCallers : TakeTryLock(c)
    \/ \E c \in LockCallers : TakeLockAcquired(c)
    \/ \E c \in LockCallers : TakeLockTimeout(c)
    \/ \E c \in LockCallers : TakeBody(c)
    \/ \E c \in LockCallers : TakeReturnLock(c)

SpecLocks == InitLocks /\ [][NextLocks]_vars

---------------------------------------------------------------------------
(* Event processor: API-request messages into the event log tables          *)

EpShips == {"S1", "S2"}
EpWaypoints == {"A", "B"}
MaxMessages == 2
MaxEpCrashes == 1
SnapshotInterval == 20

\* ShipEntity, by the fields the messages of the model change
ShipEntity(w, f) == [waypoint |-> w, fuel |-> f]

\* the ship of a response body
ResponseShip == ShipEntity("A", 1)

\* ApiRequest: the endpoint of its method and path, and what its response body holds
EpMessages ==
    { [endpoint |-> "GetShip", ship_symbol |-> s] : s \in EpShips }
    \cup { [endpoint |-> "GetShipsList"] }
    \cup { [endpoint |-> "PostShipDock", ship_symbol |-> "S1", waypoint |-> w] : w \in EpWaypoints }
    \cup { [endpoint |-> "PostShipRefuel", ship_symbol |-> "S1", fuel |-> 0] }
    \cup { [endpoint |-> "Other"] }

NoUpdate == [some |-> FALSE]

\* the ship_updates, ship_nav_updates and ship_fuel_updates entries of one symbol
ShipReq(s, ship, nav_update, fuel_update) ==
    [symbol |-> s, ship_update |-> ship, ship_nav_update |-> nav_update,
     ship_fuel_update |-> fuel_update]

\* process_api_request: the calls of process_ship_req for a message, in the order of
\* the BTreeSet of symbols
ship_reqs(m) ==
    CASE m.endpoint = "GetShip" ->
           << ShipReq(m.ship_symbol, [some |-> TRUE, entity |-> ResponseShip], NoUpdate, NoUpdate) >>
      [] m.endpoint = "GetShipsList" ->
           << ShipReq("S1", [some |-> TRUE, entity |-> ResponseShip], NoUpdate, NoUpdate),
              ShipReq("S2", [some |-> TRUE, entity |-> ResponseShip], NoUpdate, NoUpdate) >>
      [] m.endpoint = "PostShipDock" ->
           << ShipReq(m.ship_symbol, NoUpdate, [some |-> TRUE, waypoint |-> m.waypoint], NoUpdate) >>
      [] m.endpoint = "PostShipRefuel" ->
           << ShipReq(m.ship_symbol, NoUpdate, NoUpdate, [some |-> TRUE, fuel |-> m.fuel]) >>
      [] OTHER -> << >>

\* apply_ship_nav, apply_ship_fuel
apply_ship_nav(e, u) == IF u.some THEN [e EXCEPT !.waypoint = u.waypoint] ELSE e
apply_ship_fuel(e, u) == IF u.some THEN [e EXCEPT !.fuel = u.fuel] ELSE e

\* process_ship_req: the latest ship entity (a partial update needs the previous one)
ship_entity_of(prev, req) ==
    IF req.ship_update.some THEN [some |-> TRUE, entity |-> req.ship_update.entity]
    ELSE IF ~prev.some THEN [some |-> FALSE]
    ELSE [some |-> TRUE,
          entity |-> apply_ship_fuel(apply_ship_nav(prev.state_data, req.ship_nav_update),
                                     req.ship_fuel_update)]

NoState == [some |-> FALSE]

\* a row of current_state
CurrentState(data, seq, eseq, snap) ==
    [some |-> TRUE, state_data |-> data, seq_num |-> seq, entity_seq_num |-> eseq,
     last_snapshot_entity_seq_num |-> snap]

EpLocals == [req |-> NoUpdate, current_state |-> NoState, ship_entity |-> NoUpdate,
             next_seq_num |-> 0, next_entity_seq_num |-> 0, should_snapshot |-> FALSE]

\* the tables before the run: empty, or a log of 19 events of S1
EpTables ==
    { [event_logs |-> 0, current_state |-> [s \in EpShips |-> NoState],
       snapshots |-> {}, events |-> {}],
      [event_logs |-> SnapshotInterval - 1,
       current_state |-> [s \in EpShips |->
            IF s = "S1"
            THEN CurrentState(ShipEntity("B", 1), SnapshotInterval - 1, SnapshotInterval - 1, 0)
            ELSE NoState],
       snapshots |-> {},
       events |-> { [seq_num |-> n, entity_id |-> "S1"] : n \in 1..(SnapshotInterval - 1) }] }

\* update_entity: event_log.map(|log| log.last_seq_num).unwrap_or(0) + 1
next_seq_num_of(last_seq_num) == last_seq_num + 1

\* process_api_request goes on with the next symbol, or main commits the message
EpContinue(pending) == IF pending = << >> THEN "commit" ELSE "ship_req"

\* main: consumer.recv, process_api_request up to the first process_ship_req
Recv ==
    /\ ep.status = "running"
    /\ ep.pc = "recv"
    /\ ep.pos <= Len(ep.queue)
    /\ ep' = [ep EXCEPT !.pending = ship_reqs(ep.queue[ep.pos]),
                        !.pc = EpContinue(ship_reqs(ep.queue[ep.pos])),
                        !.local = EpLocals]
    /\ UNCHANGED << args, result, nav, rsv, lk, acvars, evars >>

\* process_ship_req: get_entity, the latest entity, the comparison with the previous
ProcessShipReq ==
    /\ ep.status = "running"
    /\ ep.pc = "ship_req"
    /\ LET req == Head(ep.pending)
           current_state == ep.current_state[req.symbol]
           ship_entity == ship_entity_of(current_state, req)
           rest == Tail(ep.pending)
       IN IF ~ship_entity.some
             \/ (current_state.some /\ current_state.state_data = ship_entity.entity)
          THEN ep' = [ep EXCEPT !.pending = rest, !.pc = EpContinue(rest), !.local = EpLocals]
          ELSE ep' = [ep EXCEPT !.pending = rest, !.pc = "get_event_log",
                                !.local = [EpLocals EXCEPT !.req = req,
                                                           !.current_state = current_state,
                                                           !.ship_entity = ship_entity]]
    /\ UNCHANGED << args, result, nav, rsv, lk, acvars, evars >>

\* update_entity, Update Query 1: get_event_log, the sequence numbers
GetEventLog ==
    /\ ep.status = "running"
    /\ ep.pc = "get_event_log"
    /\ LET cs == ep.local.current_state
           next_entity_seq_num == (IF cs.some THEN cs.entity_seq_num ELSE 0) + 1
           last_snapshot == IF cs.some THEN cs.last_snapshot_entity_seq_num ELSE 0
       IN ep' = [ep EXCEPT !.pc = "upsert_event_log",
                           !.local.next_seq_num = next_seq_num_of(ep.event_logs),
                           !.local.next_entity_seq_num = next_entity_seq_num,
                           !.local.should_snapshot =
                               (next_entity_seq_num - last_snapshot >= SnapshotInterval)]
    /\ UNCHANGED << args, result, nav, rsv, lk, acvars, evars >>

\* update_entity, Update Query 1.1: upsert_event_log
UpsertEventLog ==
    /\ ep.status = "running"
    /\ ep.pc = "upsert_event_log"
    /\ ep' = [ep EXCEPT !.event_logs = ep.local.next_seq_num, !.pc = "upsert_entity"]
    /\ UNCHANGED << args, result, nav, rsv, lk, acvars, evars >>

\* update_entity, Update Query 2: upsert_entity
UpsertEntity ==
    /\ ep.status = "running"
    /\ ep.pc = "upsert_entity"
    /\ LET l == ep.local
           cs == l.current_state
           last_snapshot == IF l.should_snapshot THEN l.next_entity_seq_num
                            ELSE IF cs.some THEN cs.last_snapshot_entity_seq_num ELSE 0
       IN ep' = [ep EXCEPT !.current_state[l.req.symbol] =
                               CurrentState(l.ship_entity.entity, l.next_seq_num,
                                            l.next_entity_seq_num, last_snapshot),
                           !.pc = IF l.should_snapshot THEN "insert_snapshot"
                                  ELSE "insert_event"]
    /\ UNCHANGED << args, result, nav, rsv, lk, acvars, evars >>

\* update_entity, Update Query 2.1: insert_snapshot
InsertSnapshot ==
    /\ ep.status = "running"
    /\ ep.pc = "insert_snapshot"
    /\ ep' = [ep EXCEPT !.snapshots = @ \cup {[entity_id |-> ep.local.req.symbol,
                                               seq_num |-> ep.local.next_seq_num,
                                               entity_seq_num |-> ep.local.next_entity_seq_num]},
                        !.pc = "insert_event"]
    /\ UNCHANGED << args, result, nav, rsv, lk, acvars, evars >>

\* update_entity, Update Query 3: insert_event; then the next symbol or the commit
InsertEvent ==
    /\ ep.status = "running"
    /\ ep.pc = "insert_event"
    /\ ep' = [ep EXCEPT !.events = { e \in @ : e.seq_num # ep.local.next_seq_num }
                                   \cup {[seq_num |-> ep.local.next_seq_num,
                                          entity_id |-> ep.local.req.symbol]},
                        !.pc = EpContinue(ep.pending),
                        !.local = EpLocals]
    /\ UNCHANGED << args, result, nav, rsv, lk, acvars, evars >>

\* main: commit_message; the loop goes back to recv
Commit ==
    /\ ep.status = "running"
    /\ ep.pc = "commit"
    /\ ep' = [ep EXCEPT !.committed = ep.pos, !.pos = ep.pos + 1, !.pc = "recv",
                        !.local = EpLocals]
    /\ UNCHANGED << args, result, nav, rsv, lk, acvars, evars >>

\* the processor ends at any point and is started again: the consumer group gets the
\* messages after the last commit again, the tables are as they were written
EpCrash ==
    /\ ep.status = "running"
    /\ ep.crashes < MaxEpCrashes
    /\ ep.pc # "recv"
    /\ ep' = [ep EXCEPT !.crashes = @ + 1, !.pos = ep.committed + 1, !.pc = "recv",
                        !.pending = << >>, !.local = EpLocals]
    /\ UNCHANGED << args, result, nav, rsv, lk, acvars, evars >>

BoundedSeqs(S, n) == UNION { [1..k -> S] : k \in 1..n }

InitEvents ==
    /\ InitAgentRunning
    /\ ExecInit
    /\ fuel_hold = [s \in LogiShips |-> 0]
    /\ args = [fn |-> "none"]
    /\ result = NoResult
    /\ nav = NoNav
    /\ rsv = NoRsv
    /\ lk = NoLk
    /\ \E q \in BoundedSeqs(EpMessages, MaxMessages) : \E t \in EpTables :
          ep = [status |-> "running", queue |-> q, pos |-> 1, committed |-> 0,
                pc |-> "recv", pending |-> << >>, local |-> EpLocals, crashes |-> 0,
                event_logs |-> t.event_logs, current_state |-> t.current_state,
                snapshots |-> t.snapshots, events |-> t.events]

NextEvents ==
    \/ Recv
    \/ ProcessShipReq
    \/ GetEventLog
    \/ UpsertEventLog
    \/ UpsertEntity
    \/ InsertSnapshot
    \/ InsertEvent
    \/ Commit
    \/ EpCrash

SpecEvents == InitEvents /\ [][NextEvents]_vars

---------------------------------------------------------------------------
(* try_buy_ship as a function of the fleet, the ledger and the purchaser   *)

\* credits available to a purchase: around the price of the probe, and of the hauler
\* with its reservation at the cheaper and at the dearer shipyard
AvailableCredits == {24999, 25000, 349999, 350000, 359999, 360000}

\* the fleets: the command ship and the probe, with or without a hauler
Fleets ==
    { f \in UNION { [S -> [model : {"CMD", "PROBE", "HAULER"}, wp : Waypoints, transit : BOOLEAN]] :
                      S \in {{1, 2}, {1, 2, 3}} } :
        /\ f[1].model = "CMD" /\ f[2].model = "PROBE"
        /\ 3 \in DOMAIN f => f[3].model = "HAULER" }

\* the assignments refresh_ship_config gives the fleet
FleetAssignments(f) ==
    [r \in RoleIds |->
        CASE r = "cmd" -> 1 [] r = "probe_w1" -> 2
          [] r = "hauler1" -> (IF 3 \in DOMAIN f THEN 3 ELSE 0)
          [] OTHER -> 0]

\* the calls: an unfilled role of the configuration, a purchaser (0: none)
BuyArgs(cfg, ja, f) ==
    { [fn |-> "try_buy_ship", job |-> j, purchaser |-> q] :
         j \in { i \in 1..Len(cfg) : ~job_assigned(ja, cfg[i].id) },
         q \in {0} \cup DOMAIN f }

\* try_buy_ship up to the purchase request
TryBuyShipCall ==
    /\ args.fn = "try_buy_ship"
    /\ result = NoResult
    /\ result' = [kind |-> "try_buy_ship",
                  r |-> try_buy_ship(ship_config[args.job], args.purchaser, ledger,
                                     ship_config, job_assignments, ships)]
    /\ UNCHANGED << args, nav, svars, acvars, evars >>

InitBuy ==
    /\ era \in {"StartingSystem1", "StartingSystem2"}
    /\ db_era = None
    /\ era_override = None
    /\ ships \in Fleets
    /\ ship_config = generate_ship_config(era)
    /\ job_assignments = FleetAssignments(ships)
    /\ job_assignments_rev \in ReverseMaps(job_assignments)
    /\ db_assignments = job_assignments
    /\ \E a \in AvailableCredits :
          LET l == RefreshLedgerOf(LedgerNew(0), ship_config, job_assignments, ships, FALSE)
          IN ledger = set_credits(l, a + reserved_credits(l))
    /\ lock = None
    /\ pc = [p \in Procs |-> CASE p = "agent" -> "a_done" [] p = "ctrl" -> "c_tick"
                               [] p = "tm" -> "t_idle"]
    /\ tb = TbInit
    /\ ret = [p \in Procs |-> RetInit]
    /\ spawned = [s \in ShipIds |-> IF s \in DOMAIN ships THEN 1 ELSE 0]
    /\ jumpgate_finished = FALSE
    /\ cargo = [s \in ShipIds |-> 0]
    /\ trades = 0
    /\ restarts = 0
    /\ tm_ship = 0
    /\ ctick = TickInit
    /\ refreshed = NoRefresh
    /\ obs = ObsNone
    /\ ExecInit
    /\ fuel_hold = [s \in LogiShips |-> 0]
    /\ args \in BuyArgs(ship_config, job_assignments, ships)
    /\ result = NoResult
    /\ NoServices
    /\ nav = NoNav

NextBuy == TryBuyShipCall

SpecBuy == InitBuy /\ [][NextBuy]_vars

---------------------------------------------------------------------------
(* Claims about the Agent Controller (specification Spec)                  *)

\* C1: in every reachable state the role -> ship map and the ship -> role map are
\* exact inverses: job_assignments[r] = s iff job_assignments_rev[s] = r, so no ship
\* holds two roles and no role holds two ships.
C1_AssignmentsInverse ==
    \A r \in RoleIds : \A s \in ShipIds :
        (job_assignments[r] = s) <=> (job_assignments_rev[s] = r)

\* a bought ship holds a role after a restart has rebuilt the reverse map
C1_Witness ==
    /\ restarts = 1
    /\ job_assignments["hauler1"] = 3
    /\ job_assignments_rev[3] = "hauler1"
    /\ pc["agent"] = "a_done"

\* C3: for every ship at most one executor is ever started, whatever the interleaving
\* of run_agent, the controller ticks and the task manager's buy phase.
C3_AtMostOneExecutor == \A s \in ShipIds : spawned[s] <= 1

\* C5 (as claimed): the sum of the ledger's reservations is at most the credits.
C5_ReservedWithinCredits == reserved_credits(ledger) <= ledger.credits

\* C5 (amended): every reservation is either absent or the fixed amount of its key
\* (FUEL 10000, JUMPGATE_COSTS 500000, 5000 per cargo unit of a logistics ship),
\* whatever the credits are; the sum may exceed the credits, and while available
\* credits are negative try_buy_ship decides on no purchase.
C5_FixedReservations ==
    /\ ledger.fuel \in {0, FuelReservation}
    /\ ledger.gate \in {0, JumpgateReservation}
    /\ \A s \in ShipIds :
          ledger.ship[s] # 0 =>
             /\ s \in DOMAIN ships
             /\ ledger.ship[s] = CargoCapacity(ships[s].model) * CreditsPerCargoUnit
    /\ (obs.kind = "try_buy_ship" /\ obs.available < 0) => obs.result # "Buy"

\* the reservations of a fresh agent exceed its credits
C5_Witness ==
    /\ ledger.fuel = FuelReservation
    /\ ledger.ship[1] = CargoCapacity("CMD") * CreditsPerCargoUnit
    /\ reserved_credits(ledger) > ledger.credits
    /\ obs.kind = "try_buy_ship"
    /\ obs.available < 0

\* C6: a ship purchase is issued only when, at that moment, available credits are at
\* least the ship's price plus the role's job reservation.
C6_PurchaseWithinAvailable ==
    obs.kind = "buy_ship" => obs.available >= obs.cost + obs.reservation

\* try_buy_ship has passed never_purchase and the shipyard search and finds the
\* cheapest shipyard out of reach
LowCredits(o) ==
    /\ o.kind = "try_buy_ship"
    /\ ~o.never_purchase
    /\ o.cheapest > 0
    /\ o.available < o.cheapest + o.reservation

\* C7: when available credits are below the cheapest price plus the job reservation,
\* try_buy_ship returns FailedLowCredits, no purchase is issued, ships, assignments
\* and ledger stay as they are, and try_buy_ships returns without a waypoint.
C7_LowCreditsNoPurchase ==
    [][LowCredits(obs') =>
          /\ obs'.result = "FailedLowCredits"
          /\ obs'.wp = None
          /\ pc'[obs'.by] = Continuation(obs'.by)
          /\ ret'[obs'.by].wp = None
          /\ ret'[obs'.by].bought = tb.bought
          /\ lock' = None
          /\ ships' = ships
          /\ job_assignments' = job_assignments
          /\ job_assignments_rev' = job_assignments_rev
          /\ db_assignments' = db_assignments
          /\ ledger' = ledger]_vars

\* the hauler role is refused while the reservations exceed the credits
C7_Witness ==
    /\ LowCredits(obs)
    /\ obs.job = "hauler1"
    /\ obs.reservation = CargoCapacity("HAULER") * CreditsPerCargoUnit
    /\ obs.available < 0
    /\ obs.result = "FailedLowCredits"
    /\ ret[obs.by].wp = None

\* C8: without era_override the era never moves backwards, over controller ticks
\* and over restarts that reload the persisted era.
C8_EraNeverBackwards ==
    [][era_override = None => EraRank(era') >= EraRank(era)]_vars

\* C9: without override, an evaluation in StartingSystem1 advances to StartingSystem2
\* iff available credits are at least 800000; a tick advances at most once; the
\* advance is persisted before the loop evaluates again; the loop ends at a fixed
\* point, after at most two evaluations.
C9_EraAdvance ==
    [][/\ (obs'.kind = "era_check" /\ obs'.before = "StartingSystem1") =>
             /\ (era' = "StartingSystem2") <=> (obs'.available >= EraThreshold)
             /\ (era' # "StartingSystem2") => (era' = "StartingSystem1")
             /\ obs'.available = available_credits(ledger)
       /\ (obs'.kind = "era_check" /\ obs'.before # "StartingSystem1") => era' = era
       /\ obs'.kind = "era_check" =>
             /\ ctick'.evals <= 2
             /\ ctick'.advances <= 1
             /\ db_era' = db_era
             /\ (ctick.advances > 0) => (db_era = era)
             /\ (pc'["ctrl"] = "lock") <=> (era' = era)
             /\ (pc'["ctrl"] = "lock") => next_era(era', available_credits(ledger')) = None
       /\ pc["ctrl"] = "c_era_persist" /\ pc'["ctrl"] = "c_era" => db_era' = era]_vars

\* the loop has advanced at exactly 800000, persisted, and evaluated once more
C9_Witness ==
    /\ era_override = None
    /\ obs.kind = "era_check"
    /\ obs.before = "StartingSystem2"
    /\ ctick = [evals |-> 2, advances |-> 1]
    /\ db_era = "StartingSystem2"
    /\ available_credits(ledger) = EraThreshold
    /\ pc["ctrl"] = "lock"

---------------------------------------------------------------------------
(* Claims about the task manager and the executor (specification SpecExec) *)

\* C2: a task in in_progress_tasks has one holder, and the holder changes only by the
\* task leaving in_progress_tasks; take_tasks gives a ship only tasks that no ship
\* holds at that moment (completed, or reclaimed by the holder's own take_tasks).
C2_TaskHeldByOneShip ==
    [][/\ \A t \in TaskIds :
             (in_progress[t] # 0 /\ in_progress'[t] # in_progress[t]) => in_progress'[t] = 0
       /\ eobs'.kind = "take_tasks" =>
             \A t \in eobs'.tasks : in_progress[t] = 0 /\ in_progress'[t] = eobs'.ship]_vars

\* ship 3 is given the one task that ship 1 does not hold
C2_Witness ==
    /\ eobs.kind = "take_tasks"
    /\ eobs.ship = 3
    /\ eobs.tasks = {"refreshmarket_W1"}
    /\ in_progress["trade_G"] = 1
    /\ in_progress["refreshmarket_W1"] = 3

\* C4: every action of the persisted schedule below the persisted progress has been
\* executed exactly once (the pair is read outside the two writes of a new schedule).
C4_ExecutedExactlyOnce ==
    \A s \in LogiShips :
        (db_schedule[s].some /\ epc[s] # "save_prog") =>
            \A i \in 1..Len(db_schedule[s].actions) :
                i <= db_progress[s] => exec_count[s][i] = 1

\* the persisted pair can be resumed
Resumable(schedule_opt, progress_opt) ==
    /\ schedule_opt.some
    /\ progress_opt >= 0
    /\ progress_opt < Len(schedule_opt.actions)

\* C10: on loading, the executor resumes the persisted schedule at the persisted
\* progress iff both exist and progress < number of actions; it asks take_tasks for
\* a schedule only otherwise, and is never inside take_tasks while the persisted
\* schedule is unfinished.
C10_ResumeOrTake ==
    [][/\ eobs'.kind = "load" =>
             LET s == eobs'.ship
                 r == Resumable(db_schedule[s], db_progress[s])
             IN /\ r <=> epc'[s] = "check"
                /\ r => (sch'[s] = db_schedule[s].actions /\ idx'[s] = db_progress[s])
                /\ epc'[s] = "take" => ~r
       /\ \A s \in LogiShips :
             epc'[s] \in {"take", "tt_gen", "tt_plan", "tt_ret"} =>
                ~Resumable(db_schedule'[s], db_progress'[s])]_vars

\* after a crash an executor resumes in the middle of its schedule
C10_Witness ==
    /\ crashes = 1
    /\ eobs.kind = "load"
    /\ eobs.resume
    /\ epc[eobs.ship] = "check"
    /\ idx[eobs.ship] = 1
    /\ Len(sch[eobs.ship]) > 1

\* the sum of the net cargo of the first n actions
RECURSIVE DeltaSum(_, _)
DeltaSum(actions, n) ==
    IF n = 0 THEN 0
    ELSE DeltaSum(actions, n - 1)
         + (CASE actions[n].action = "BuyGoods" -> 1
              [] actions[n].action = "SellGoods" -> 0 - 1
              [] OTHER -> 0)

\* C12 (as claimed): when the executor starts or resumes a schedule, the net cargo of
\* the actions before the progress index equals the cargo (FUEL aside).
C12_CargoMatchesProgress ==
    \A s \in LogiShips :
        (epc[s] = "check" /\ Len(sch[s]) > 0) => hold[s] = DeltaSum(sch[s], idx[s])

\* C12 (amended): an executor that goes on after the cargo check holds the net cargo
\* of the actions before its index and no FUEL, or, with one action to skip, the net
\* cargo including the next action (executed before a crash, its progress not
\* recorded); with FUEL as the only difference it is about to sell the FUEL.
C12_CargoMatchesOrNextDone ==
    \A s \in LogiShips :
        /\ (epc[s] = "exec" /\ idx[s] < Len(sch[s])) =>
              /\ fuel_hold[s] = 0
              /\ skip[s] \in {0, 1}
              /\ skip[s] = 0 => hold[s] = DeltaSum(sch[s], idx[s])
              /\ skip[s] = 1 => /\ hold[s] = DeltaSum(sch[s], idx[s] + 1)
                                /\ hold[s] # DeltaSum(sch[s], idx[s])
        /\ epc[s] = "dump_fuel" =>
              /\ fuel_hold[s] > 0
              /\ skip[s] = 0
              /\ hold[s] = DeltaSum(sch[s], idx[s])

\* after a crash the hauler resumes with a purchase done and not recorded
C12_Witness ==
    /\ crashes = 1
    /\ epc[ReconShip] = "exec"
    /\ skip[ReconShip] = 1
    /\ idx[ReconShip] = 0
    /\ db_progress[ReconShip] = 0
    /\ hold[ReconShip] = 1
    /\ sch[ReconShip][1].action = "BuyGoods"

\* C13: while a take_tasks call is between its filtering of the in-progress tasks and
\* its recording of the new assignments, no other operation changes in_progress_tasks.
C13_TakeTasksAtomic ==
    [][\A s \in LogiShips :
         (tt_lock = s /\ epc[s] = "tt_plan" /\ epc'[s] = "tt_plan")
            => in_progress' = in_progress]_vars

---------------------------------------------------------------------------
(* Claims about the cargo check of the executor (specification SpecRecon)   *)

\* the cargo expected from the first idx[s] actions, and after the next action
ExpectedNow(s) == expected_cargo(sch[s], idx[s])
ExpectedNext(s) == ExpectedNow(s) + net_cargo(sch[s][idx[s] + 1].action)
CargoEqual(s) == hold[s] = ExpectedNow(s) /\ fuel_hold[s] = 0
CargoEqualAfterNext(s) == hold[s] = ExpectedNext(s) /\ fuel_hold[s] = 0
CargoEqualButFuel(s) == hold[s] = ExpectedNow(s) /\ fuel_hold[s] > 0

\* C11: the cargo check before executing. Equal cargo: the next action is executed.
\* Equal after the next action's net delta: exactly that action is skipped, the ship
\* still goes to its waypoint, the progress is persisted and its task completed.
\* Different only by FUEL: the FUEL is sold and the executor proceeds. Otherwise the
\* executor stops and executes nothing.
C11_CargoCheck ==
    [][\A s \in LogiShips :
         /\ (eobs'.kind = "check" /\ eobs'.ship = s) =>
               /\ hold' = hold /\ fuel_hold' = fuel_hold /\ exec_count' = exec_count
               /\ db_progress' = db_progress /\ idx' = idx
               /\ IF CargoEqual(s) THEN epc'[s] = "exec" /\ skip'[s] = 0
                  ELSE IF CargoEqualAfterNext(s) THEN epc'[s] = "exec" /\ skip'[s] = 1
                  ELSE IF CargoEqualButFuel(s) THEN epc'[s] = "dump_fuel" /\ skip'[s] = 0
                  ELSE epc'[s] = "dead"
         /\ (epc[s] = "exec" /\ epc'[s] = "persist") =>
               LET a == sch[s][idx[s] + 1] IN
               /\ ships'[s].wp = a.waypoint
               /\ skip'[s] = 0
               /\ IF skip[s] = 1
                  THEN hold' = hold /\ exec_count' = exec_count
                  ELSE /\ hold'[s] = hold[s] + net_cargo(a.action)
                       /\ exec_count'[s][idx[s] + 1] = exec_count[s][idx[s] + 1] + 1
         /\ (epc[s] = "persist" /\ epc'[s] # "persist" /\ eobs'.kind # "crash") =>
               LET a == sch[s][idx[s] + 1] IN
               /\ db_progress'[s] = idx[s] + 1
               /\ epc'[s] = IF a.completes_task_id THEN "complete" ELSE "exec"
         /\ (epc[s] = "complete" /\ epc'[s] # "complete" /\ eobs'.kind # "crash") =>
               /\ in_progress'[sch[s][idx[s] + 1].task] = 0
               /\ idx'[s] = idx[s] + 1
               /\ epc'[s] = "exec"
         /\ (epc[s] = "dump_fuel" /\ epc'[s] # "dump_fuel" /\ eobs'.kind # "crash") =>
               /\ fuel_hold'[s] = 0 /\ hold' = hold /\ exec_count' = exec_count
               /\ epc'[s] = "exec" /\ skip'[s] = 0
         /\ (epc[s] = "dead" /\ eobs'.kind # "crash") =>
               /\ epc'[s] = "dead" /\ hold'[s] = hold[s] /\ exec_count'[s] = exec_count[s]
      ]_vars

\* the hauler resumed with the sale of its schedule already done but not recorded: the
\* sale was skipped, the ship went to the market, the progress was persisted and the
\* task completed without a second sale
C11_Witness ==
    /\ crashes = 0
    /\ eobs.kind = "set_task_completed"
    /\ eobs.ship = ReconShip
    /\ eobs.task = "trade_G"
    /\ sch[ReconShip] = TaskActions("trade_G")
    /\ exec_count[ReconShip] = ZeroCount
    /\ ships[ReconShip].wp = "W2"
    /\ db_progress[ReconShip] = 2
    /\ in_progress["trade_G"] = 0

---------------------------------------------------------------------------
(* Claims about the pathfinder (specification SpecRoute)                   *)

\* the Cruise fuel from a non-market destination to its closest market
ReqEscape(r) ==
    IF r.dst \in r.markets THEN 0
    ELSE CHOOSE f \in { Distances[r.dst, m] : m \in r.markets } :
            \A m \in r.markets : f <= Distances[r.dst, m]

\* the fuel budget of a hop from a to b by the kind of its endpoints
Budget(a, b, r) ==
    IF a \in r.markets
    THEN (IF b \in r.markets THEN r.fuel_capacity ELSE r.fuel_capacity - ReqEscape(r))
    ELSE (IF b \in r.markets THEN r.start_fuel ELSE r.start_fuel - ReqEscape(r))

\* the waypoint a hop of the returned route starts from
HopFrom(i) == IF i = 1 THEN args.src ELSE result.hops[i - 1].wp

\* C14: every hop of a returned route costs at most the fuel budget of its endpoints.
C14_HopWithinBudget ==
    (args.fn = "get_route" /\ result.kind = "route") =>
        \A i \in 1..Len(result.hops) :
            /\ result.hops[i].edge.some
            /\ result.hops[i].edge.fuel_cost <= Budget(HopFrom(i), result.hops[i].wp, args)

\* a route from a non-market source over a market to a non-market destination
C14_Witness ==
    /\ args.fn = "get_route"
    /\ args.markets = {"M2"} /\ args.src = "M1" /\ args.dst = "N"
    /\ args.start_fuel = 60 /\ args.fuel_capacity = 100
    /\ result.kind = "route"
    /\ Len(result.hops) = 2
    /\ result.hops[1].wp = "M2" /\ result.hops[1].edge.fuel_cost = 50
    /\ result.hops[2].wp = "N" /\ result.hops[2].edge.fuel_cost = 45

\* the integer nearest to num / den, a half taken upwards
RoundQuotient(num, den) ==
    CHOOSE k \in 0..MaxDuration : 2 * den * k - den <= 2 * num /\ 2 * num < 2 * den * k + den

\* round(15 + 12.5 * d / speed) and round(15 + 25 * d / speed)
BurnDuration(d, speed) == RoundQuotient(30 * speed + 25 * d, 2 * speed)
CruiseDuration(d, speed) == RoundQuotient(15 * speed + 25 * d, speed)

AdmissibleHop(a, b, r) ==
    /\ a # b
    /\ a \in r.markets \/ a = r.src
    /\ b \in r.markets \/ b = r.dst
    /\ Distances[a, b] <= Budget(a, b, r)

\* the duration of an admissible hop: Burn where the budget allows it, else Cruise
HopDuration(a, b, r) ==
    IF 2 * Distances[a, b] <= Budget(a, b, r)
    THEN BurnDuration(Distances[a, b], r.speed)
    ELSE CruiseDuration(Distances[a, b], r.speed)

AdmissiblePaths(r) ==
    { p \in SimplePaths(r.src, r.dst) :
        \A i \in 1..(Len(p) - 1) : AdmissibleHop(p[i], p[i + 1], r) }

RECURSIVE Duration(_, _, _)
Duration(p, n, r) ==
    IF n <= 1 THEN 0 ELSE Duration(p, n - 1, r) + HopDuration(p[n - 1], p[n], r)

RECURSIVE SumHopDurations(_, _)
SumHopDurations(hops, n) ==
    IF n = 0 THEN 0 ELSE SumHopDurations(hops, n - 1) + hops[n].edge.travel_duration

\* C16: a returned route is an admissible path of minimum duration, and its reported
\* total duration is the sum of the durations of its hops.
C16_MinimumDurationRoute ==
    (args.fn = "get_route" /\ result.kind = "route") =>
        /\ result.path \in AdmissiblePaths(args)
        /\ \A q \in AdmissiblePaths(args) :
              result.min_travel_duration <= Duration(q, Len(q), args)
        /\ result.min_travel_duration = SumHopDurations(result.hops, Len(result.hops))

\* C17: get_route fails only when no admissible path leads from source to destination.
C17_FailsOnlyWithoutPath ==
    (args.fn = "get_route" /\ result.kind = "panic") => AdmissiblePaths(args) = {}

\* the call of the route with fueling: markets M1 and M2, from M1 to the non-market N
FuelingExample ==
    /\ args.fn = "get_route"
    /\ args.markets = {"M1", "M2"} /\ args.src = "M1" /\ args.dst = "N"
    /\ args.speed = 10 /\ args.fuel_capacity = 100 /\ args.start_fuel = 60
    /\ result.kind = "route"

\* C18 (as claimed): the route is M1, M2, N with reqEscape 50, the last hop in Cruise
\* under the budget 100 - 50 = 50 = d(M2, N), the total the sum of the two edges.
C18_RouteWithFueling ==
    FuelingExample =>
        /\ result.path = << "M1", "M2", "N" >>
        /\ result.req_terminal_fuel = 50
        /\ result.hops[2].edge.flight_mode = "CRUISE"
        /\ Distances["M2", "N"] = 50
        /\ result.min_travel_duration = SumHopDurations(result.hops, 2)

\* C18 (amended): the route is M1, M2, N with reqEscape 45 = d(M2, N), the last hop
\* in Cruise (cost 45) under the budget 100 - 45 = 55, the first in Burn (cost 100),
\* the total 78 + 128 = 206 the sum of the two edges.
C18_RouteWithFuelingAt45 ==
    FuelingExample =>
        /\ result.path = << "M1", "M2", "N" >>
        /\ Distances["M1", "M2"] = 50 /\ Distances["M2", "N"] = 45
        /\ result.req_terminal_fuel = 45
        /\ result.hops[1].edge.flight_mode = "BURN"
        /\ result.hops[1].edge.fuel_cost = 100
        /\ result.hops[1].edge.travel_duration = 78
        /\ result.hops[2].edge.flight_mode = "CRUISE"
        /\ result.hops[2].edge.fuel_cost = 45
        /\ result.hops[2].edge.fuel_cost <= args.fuel_capacity - result.req_terminal_fuel
        /\ 2 * Distances["M2", "N"] > args.fuel_capacity - result.req_terminal_fuel
        /\ result.hops[2].edge.travel_duration = 128
        /\ result.min_travel_duration = 206
        /\ result.min_travel_duration = SumHopDurations(result.hops, 2)

\* the route with fueling has been computed
C18_Witness ==
    /\ FuelingExample
    /\ Len(result.hops) = 2
    /\ result.hops[2].wp = "N"
    /\ result.hops[2].a_is_market /\ ~result.hops[2].b_is_market

---------------------------------------------------------------------------
(* Claims about the task generation (specification SpecTasks)              *)

\* a refresh of a market that is neither probed nor a pure exchange
RefreshOf(age) ==
    /\ args.fn = "refresh_market" /\ result.kind = "refresh_market"
    /\ ~args.is_probed /\ ~args.is_pure_exchange
    /\ args.market_opt.some /\ args.market_opt.age = age

\* the value on the line from 1000 at 30 minutes to 5000 at 60 minutes, in whole credits
LinearRamp(age) == 1000 + ((age - 1800) * 20) \div 9

\* the value does not decrease with the age
NotBelowYounger ==
    \A a \in MarketAges :
        (RefreshOf(args.market_opt.age) /\ a <= args.market_opt.age
                                        /\ refresh_reward(Sampled(a)).task)
            => /\ result.task.task
               /\ refresh_reward(Sampled(a)).value <= result.task.value

\* the values from 30 minutes on, and of a market never sampled
RefreshValueFrom30 ==
    /\ \A age \in MarketAges :
          RefreshOf(age) =>
             /\ age = 1800 => (result.task.task /\ result.task.value = 1000)
             /\ age >= 3600 => (result.task.task /\ result.task.value = 5000)
             /\ (1800 < age /\ age < 3600) =>
                   /\ result.task.task
                   /\ result.task.value = LinearRamp(age)
                   /\ 1000 <= result.task.value /\ result.task.value <= 5000
    /\ NotBelowYounger
    /\ (args.fn = "refresh_market" /\ result.kind = "refresh_market"
           /\ ~args.is_probed /\ ~args.is_pure_exchange /\ ~args.market_opt.some)
          => (result.task.task /\ result.task.value = 5000)

BuyMarkets(g) ==
    { m \in MarketSet :
        /\ g.trades[m].some
        /\ \/ g.trades[m].type = "EXCHANGE"
           \/ /\ g.trades[m].type = "EXPORT"
              /\ g.trades[m].supply \in
                    (IF g.trades[m].activity = "STRONG" /\ ~g.req_constant_flow
                     THEN {"HIGH", "ABUNDANT"} ELSE {"MODERATE", "HIGH", "ABUNDANT"}) }

CapReached(g, m) ==
    g.evo_cap.some /\ g.evo_cap.market = m /\ g.trades[m].trade_volume >= g.evo_cap.cap

SellMarkets(g) ==
    { m \in MarketSet :
        /\ g.trades[m].some
        /\ \/ g.trades[m].type = "EXCHANGE"
           \/ /\ g.trades[m].type = "IMPORT"
              /\ g.trades[m].supply \in {"SCARCE", "LIMITED", "MODERATE"}
        /\ g.permits.some => m \in g.permits.markets
        /\ CapReached(g, m) => g.trades[m].supply \in {"SCARCE", "LIMITED"} }

Cheapest(g) ==
    { m \in BuyMarkets(g) :
        \A n \in BuyMarkets(g) : g.trades[m].purchase_price <= g.trades[n].purchase_price }
Dearest(g) ==
    { m \in SellMarkets(g) :
        \A n \in SellMarkets(g) : g.trades[m].sell_price >= g.trades[n].sell_price }

Smallest(a, b, c) == IF a <= b /\ a <= c THEN a ELSE IF b <= c THEN b ELSE c
UnitsOf(g, b, s) == Smallest(g.trades[b].trade_volume, g.trades[s].trade_volume, g.capacity_cap)
ProfitOf(g, b, s) == (g.trades[s].sell_price - g.trades[b].purchase_price) * UnitsOf(g, b, s)

\* the example: Export at 100 with volume 60, Import at 160 with volume 40, capacity 50
TradeExample ==
    /\ args.fn = "trade" /\ result.kind = "trade"
    /\ args.trades["A"].some /\ args.trades["A"].type = "EXPORT"
    /\ args.trades["A"].purchase_price = 100 /\ args.trades["A"].trade_volume = 60
    /\ args.trades["A"].supply = "MODERATE" /\ args.trades["A"].activity = "WEAK"
    /\ args.trades["B"].some /\ args.trades["B"].type = "IMPORT"
    /\ args.trades["B"].sell_price = 160 /\ args.trades["B"].trade_volume = 40
    /\ args.trades["B"].supply = "MODERATE"
    /\ ~args.permits.some /\ ~args.evo_cap.some
    /\ args.capacity_cap = 50

\* C20: a trade task is emitted for a good iff an eligible buy market and an eligible
\* sell market exist and (sellPrice - purchasePrice) * units >= min_profit for the
\* cheapest buy and the dearest sell, units = min(buy volume, sell volume, capacity
\* cap); the task buys at the cheapest, sells at the dearest and has the profit as
\* value. Export at 100 (volume 60), Import at 160 (volume 40), capacity 50: 40 units,
\* profit 2400.
C20_TradeTask ==
    (args.fn = "trade" /\ result.kind = "trade") =>
        /\ result.task.task <=>
              \E b \in Cheapest(args) : \E s \in Dearest(args) :
                  ProfitOf(args, b, s) >= args.min_profit
        /\ result.task.task =>
              /\ result.task.id = "trade_G"
              /\ result.task.src \in Cheapest(args)
              /\ result.task.dest \in Dearest(args)
              /\ result.task.units = UnitsOf(args, result.task.src, result.task.dest)
              /\ result.task.value = ProfitOf(args, result.task.src, result.task.dest)
        /\ TradeExample =>
              /\ UnitsOf(args, "A", "B") = 40 /\ ProfitOf(args, "A", "B") = 2400
              /\ result.task.task <=> args.min_profit <= 2400
              /\ result.task.task => (result.task.units = 40 /\ result.task.value = 2400)

\* the example's task is emitted at min_profit 2400
C20_Witness ==
    /\ TradeExample
    /\ args.min_profit = 2400
    /\ result.task.task
    /\ result.task.src = "A" /\ result.task.dest = "B"
    /\ result.task.units = 40 /\ result.task.value = 2400

---------------------------------------------------------------------------
(* Claims about the Agent Controller, continued (specification Spec)       *)

\* the era, configuration, ships and jump gate are those of the last completed refresh
SameRefreshInputs ==
    /\ refreshed.some
    /\ refreshed.era = era
    /\ refreshed.ship_config = ship_config
    /\ refreshed.models = [s \in DOMAIN ships |-> ships[s].model]
    /\ refreshed.gate = jumpgate_finished

\* C21: a run of refresh_ship_config that ends with the era, universe state and ships
\* of the previous completed run leaves the role assignments (in memory and persisted)
\* and the ledger reservations as that run left them.
C21_RefreshIdempotent ==
    [][(obs'.kind = "refreshed" /\ SameRefreshInputs) =>
          /\ job_assignments' = refreshed.job_assignments
          /\ job_assignments_rev' = refreshed.job_assignments_rev
          /\ db_assignments' = refreshed.db_assignments
          /\ Reservations(ledger') = refreshed.reserved
          /\ refreshed' = refreshed]_vars

\* a second run has ended on unchanged inputs, with roles assigned and credits reserved
C21_Witness ==
    /\ obs.kind = "refreshed"
    /\ SameRefreshInputs
    /\ \E p \in Procs : pc[p] = "jobs" /\ lock = p /\ restarts = 0
    /\ job_assignments["cmd"] = 1
    /\ job_assignments["hauler1"] # 0
    /\ ledger.ship[1] > 0
    /\ ledger.fuel = FuelReservation

\* the position of a role in the configuration
JobIndex(cfg, id) == CHOOSE i \in 1..Len(cfg) : cfg[i].id = id

\* an attempt to buy a role has just failed
FailedAttempt(o) == o.kind = "try_buy_ship" /\ o.result # "Buy"

\* unfilled roles after the role of the attempt
LaterUnfilled(o) ==
    { i \in (JobIndex(ship_config, o.job) + 1)..Len(ship_config) :
        ~job_assigned(job_assignments, ship_config[i].id) }

\* C22 (as claimed): a role that cannot be bought does not prevent the later unfilled
\* roles from being attempted in the same call: after a failed attempt with unfilled
\* roles left, the call goes on with the role loop.
C22_FailureDoesNotEndCall ==
    [][(FailedAttempt(obs') /\ LaterUnfilled(obs') # {}) => pc'[obs'.by] = "jobs"]_vars

\* C22 (amended): try_buy_ships attempts the unfilled roles in configuration order (the
\* attempted role is unfilled and every role before it is filled); after a purchase the
\* call goes on with the role loop; the first role that cannot be bought ends the call,
\* which releases the mutex and returns the ships bought so far and the waypoint of the
\* failure, whatever unfilled roles are left.
C22_FirstFailureEndsCall ==
    [][/\ obs'.kind = "try_buy_ship" =>
            /\ ~job_assigned(job_assignments, obs'.job)
            /\ \A i \in 1..(JobIndex(ship_config, obs'.job) - 1) :
                   job_assigned(job_assignments, ship_config[i].id)
            /\ pc[obs'.by] = "jobs"
       /\ FailedAttempt(obs') =>
            /\ pc'[obs'.by] = Continuation(obs'.by)
            /\ lock = obs'.by /\ lock' = None
            /\ ret'[obs'.by] = [bought |-> tb.bought, wp |-> obs'.wp]
            /\ ships' = ships /\ job_assignments' = job_assignments
       /\ \A p \in Procs :
            (pc[p] = "bassign" /\ pc'[p] \notin {"bassign", "panicked", PcInit[p]}) =>
                 (pc'[p] = "jobs" /\ lock' = p)]_vars

\* a failed attempt has ended the call with unfilled roles left
C22_Witness ==
    /\ FailedAttempt(obs)
    /\ obs.result = "FailedLowCredits"
    /\ LaterUnfilled(obs) # {}
    /\ pc[obs.by] = Continuation(obs.by)
    /\ lock = None

---------------------------------------------------------------------------
(* Claims about try_buy_ship (specification SpecBuy)                       *)

\* a probe parked on the single waypoint of its role
StaticProbe(s) ==
    \E i \in 1..Len(ship_config) :
        /\ ship_config[i].behaviour = "Probe"
        /\ Len(ship_config[i].waypoints) = 1
        /\ job_assignments[ship_config[i].id] = s
        /\ ships[s].wp = ship_config[i].waypoints[1]
        /\ ~ships[s].transit

\* a ship that may issue the purchase at the shipyard
Qualifies(s, waypoint) ==
    /\ ships[s].wp = waypoint
    /\ ~ships[s].transit
    /\ StaticProbe(s) \/ s = args.purchaser

\* the shipyards (waypoint, price) that sell the model of the role
YardsOf(job) ==
    LET y == search_shipyards(job.ship_model) IN { y[i] : i \in 1..Len(y) }

\* the price and the reservation of the role can be paid, a purchaser is there
Affordable(job, y) ==
    available_credits(ledger) >=
        y[2] + (IF job.behaviour = "Logistics"
                THEN CargoCapacity(job.ship_model) * CreditsPerCargoUnit ELSE 0)
Staffed(y) == \E s \in DOMAIN ships : Qualifies(s, y[1])
Cheapest_Yards(job) == { y \in YardsOf(job) : \A z \in YardsOf(job) : y[2] <= z[2] }

\* C23: try_buy_ship buys at the cheapest shipyard that is affordable and has a
\* qualifying purchaser (present, not in transit, static probe or the ship passed as
\* purchaser); it issues no purchase at a shipyard without such a ship, and with
\* require_cheapest it buys nowhere when the cheapest shipyard has no purchaser.
C23_BuysAtCheapestStaffedYard ==
    (args.fn = "try_buy_ship" /\ result.kind = "try_buy_ship") =>
        LET job == ship_config[args.job]
            good == { y \in YardsOf(job) : Affordable(job, y) /\ Staffed(y) }
            blocked == job.require_cheapest /\ \E y \in Cheapest_Yards(job) : ~Staffed(y)
        IN /\ result.r.result = "Buy" =>
                 /\ << result.r.wp, result.r.cost >> \in good
                 /\ \A z \in good : result.r.cost <= z[2]
                 /\ \E s \in DOMAIN ships : Qualifies(s, result.r.wp)
           /\ blocked => result.r.result # "Buy"
           /\ (good # {} /\ ~blocked /\ ~job.never_purchase) => result.r.result = "Buy"

\* the cheapest shipyard has no purchaser, the ship passed as purchaser buys at the dearer
C23_Witness ==
    /\ args.fn = "try_buy_ship" /\ result.kind = "try_buy_ship"
    /\ args.purchaser = 1
    /\ ships[1].wp = "W2"
    /\ ~StaticProbe(2)
    /\ ship_config[args.job].id = "hauler1"
    /\ result.r.result = "Buy"
    /\ result.r.wp = "W2" /\ result.r.cost = 160000

---------------------------------------------------------------------------
(* Claims about the pathfinder, continued (specification SpecRoute)        *)

\* a call from a non-market source to a non-market destination
BothNonMarket ==
    /\ args.fn = "get_route"
    /\ args.src # args.dst
    /\ args.src \notin args.markets
    /\ args.dst \notin args.markets

\* C24: from a non-market source the search uses an edge to the non-market destination
\* only under the budget start_fuel - reqEscape, with the duration of the hop under
\* that budget; a direct route is returned with that hop, its mode and its duration.
C24_DirectHopBudget ==
    (BothNonMarket /\ result.kind \in {"route", "panic"}) =>
        LET d == Distances[args.src, args.dst]
            budget == args.start_fuel - ReqEscape(args)
        IN /\ \A e \in successors(args.src, args) :
                 e[1] = args.dst =>
                    /\ d <= budget
                    /\ e[2] = HopDuration(args.src, args.dst, args)
           /\ result.path = << args.src, args.dst >> =>
                 /\ result.kind = "route"
                 /\ result.hops[1].edge.fuel_cost <= budget
                 /\ result.min_travel_duration = result.hops[1].edge.travel_duration

---------------------------------------------------------------------------
(* Claims about goto_waypoint (specification SpecGoto)                     *)

\* the fuel a hop of the route needs at departure: its cost, plus the escape fuel when
\* it is the last hop and the destination is not a market
NeededAtDeparture(i) ==
    result.hops[i].edge.fuel_cost
      + (IF i = Len(result.hops) /\ args.dst \notin args.markets THEN ReqEscape(args) ELSE 0)

\* the hop the ship has just flown
FlownHop == IF nav.status = "arrived" THEN nav.hop ELSE nav.hop - 1

FliesRoute == args.fn = "goto_waypoint" /\ args.fuel_capacity # 0 /\ args.src # args.dst

\* C25: in goto_waypoint the ship never departs on a hop with less fuel than the hop's
\* cost (plus reqEscape on the last hop to a non-market destination); when short it
\* refuels first, only ever at a market, for a positive amount that brings the fuel to
\* at least the required level and not above the capacity; it arrives at a non-market
\* destination with at least reqEscape fuel. No assertion of the hop loop fails and the
\* server rejects no navigation.
C25_NeverDepartsShort ==
    FliesRoute =>
        /\ nav.status # "failed"
        /\ nav.status = "panicked" => nav.last = "route"
        /\ nav.last = "navigate" =>
              /\ nav.before >= NeededAtDeparture(FlownHop)
              /\ nav.fuel = nav.before - result.hops[FlownHop].edge.fuel_cost
              /\ nav.fuel >= 0
        /\ nav.last = "refuel" =>
              /\ nav.before < NeededAtDeparture(nav.hop)
              /\ HopFrom(nav.hop) \in args.markets
              /\ nav.units > 0
              /\ nav.fuel = nav.before + nav.units
              /\ nav.fuel >= NeededAtDeparture(nav.hop)
              /\ nav.fuel <= args.fuel_capacity
        /\ (nav.status = "hop" /\ nav.fuel < NeededAtDeparture(nav.hop)) =>
              (ENABLED GotoRefuel /\ ~ENABLED GotoNavigate)
        /\ (nav.status = "arrived" /\ args.dst \notin args.markets) =>
              nav.fuel >= ReqEscape(args)

\* the ship has refuelled at a market and arrived at a non-market destination
C25_Witness ==
    /\ FliesRoute
    /\ nav.status = "arrived"
    /\ nav.last = "navigate"
    /\ args.dst \notin args.markets
    /\ Len(result.hops) = 2
    /\ nav.units > 0
    /\ HopFrom(2) \in args.markets
    /\ nav.fuel >= ReqEscape(args)

---------------------------------------------------------------------------
(* Claims about the ShipController's actions (specification SpecShip)      *)

\* C26: every ship action checks that the ship is not in transit before anything else
\* and fails if it is; no request (orbit and dock included) goes to the server while
\* the arrival time of the ship's route has not passed.
C26_TransitCheckedFirst ==
    args.fn = "ship_action" =>
        /\ nav.done # << >> => nav.done[1].kind = "check"
        /\ \A i \in 1..Len(nav.done) : nav.done[i].remote => ~nav.done[i].in_transit

---------------------------------------------------------------------------
(* Claims about take_tasks (specification SpecTake)                         *)

TaskById(id) == CHOOSE t \in { args.all_tasks[i] : i \in 1..Len(args.all_tasks) } : t.id = id
ScheduledTasks == { result.actions[i].task : i \in 1..Len(result.actions) }

\* the task is forbidden by the LogisticsScriptConfig, in the words of the spec
Forbidden(task, config) ==
    \/ config.waypoint_allowlist.some /\ ~(TaskWaypoints(task) \subseteq config.waypoint_allowlist.set)
    \/ /\ task.kind = "VisitLocation"
       /\ task.action \in {"RefreshMarket", "RefreshShipyard"}
       /\ ~config.allow_market_refresh
    \/ task.kind = "VisitLocation" /\ task.action = "TryBuyShips" /\ ~config.allow_shipbuying
    \/ /\ task.kind = "TransportCargo"
       /\ task.dest_action = "DeliverConstruction"
       /\ ~config.allow_construction

\* C27: the schedule take_tasks returns for a ship contains no task that is in progress
\* for another ship and no task the ship's LogisticsScriptConfig forbids (a waypoint of
\* the task outside the allowlist, a refresh without allow_market_refresh, a ship
\* purchase trip without allow_shipbuying, a construction delivery without
\* allow_construction).
C27_NoForeignOrForbiddenTask ==
    result.kind = "take_tasks" =>
        \A id \in ScheduledTasks :
            /\ args.in_progress[id] \in {0, args.ship_symbol}
            /\ ~Forbidden(TaskById(id), args.config)

\* a schedule is returned although another ship has a task in progress and the config
\* forbids one of the tasks of the list
C27_Witness ==
    /\ result.kind = "take_tasks"
    /\ Len(result.actions) > 0
    /\ \E i \in 1..Len(args.all_tasks) : args.in_progress[args.all_tasks[i].id] = 3
    /\ args.config.waypoint_allowlist.some
    /\ \E i \in 1..Len(args.all_tasks) :
          /\ args.all_tasks[i].kind = "TransportCargo"
          /\ args.all_tasks[i].src \in args.config.waypoint_allowlist.set
          /\ args.all_tasks[i].dest \notin args.config.waypoint_allowlist.set

\* the highest value among the available tasks
HighestValue ==
    CHOOSE v \in { result.available[i].value : i \in 1..Len(result.available) } :
        \A i \in 1..Len(result.available) : result.available[i].value <= v

\* the planner returned an empty schedule and a task is available to the ship
ForcedCase ==
    /\ result.kind = "take_tasks"
    /\ Len(result.planned.actions) = 0
    /\ Len(result.available) > 0

\* C28: when the planner returns an empty schedule and a task is available, the schedule
\* returned is the one of an available task of the highest value: its source action and
\* then its destination action for a transport, its one action for a visit; only the
\* last action completes the task, and the task is in in_progress_tasks for the ship.
C28_ForceAssignsHighestValue ==
    ForcedCase =>
        \E i \in 1..Len(result.available) :
            LET task == result.available[i]
            IN /\ task.value = HighestValue
               /\ result.actions =
                     IF task.kind = "TransportCargo"
                     THEN << [waypoint |-> task.src, action |-> task.src_action,
                              task |-> task.id, completes_task_id |-> FALSE],
                             [waypoint |-> task.dest, action |-> task.dest_action,
                              task |-> task.id, completes_task_id |-> TRUE] >>
                     ELSE << [waypoint |-> task.waypoint, action |-> task.action,
                              task |-> task.id, completes_task_id |-> TRUE] >>
               /\ result.in_progress[task.id] = args.ship_symbol
               /\ \A id \in TakeTaskIds \ {task.id} :
                     result.in_progress[id] = retain_others(args.in_progress, args.ship_symbol)[id]

\* a transport is force-assigned although a task of lower value is earlier in the list
C28_Witness ==
    /\ ForcedCase
    /\ Len(result.actions) = 2
    /\ result.forced > 1
    /\ result.available[1].value < HighestValue

---------------------------------------------------------------------------
(* Claims about the task generation, continued (specification SpecTasks)   *)

\* the snapshot of the market is missing or at least 15 minutes old
SnapshotDue == ~args.market_opt.some \/ args.market_opt.age >= 900

\* a probe is parked on the market, the single waypoint of its role
StaticallyProbed ==
    \E k \in statically_probed_waypoints(args.cfg, args.ja, args.fleet) : k[2] = args.market

\* the market is on the waypoint list of a Probe role that has a ship
OnProbeRoute ==
    \E i \in 1..Len(args.cfg) :
        /\ args.cfg[i].behaviour = "Probe"
        /\ args.ja[args.cfg[i].id] # 0
        /\ \E j \in 1..Len(args.cfg[i].waypoints) : args.cfg[i].waypoints[j] = args.market

\* C29 (as claimed): a RefreshMarket task is emitted for a market whose snapshot is
\* missing or old enough unless a probe is parked on it as the single waypoint of its
\* role or the market is a pure exchange; a market that is only on the list of a probe
\* going round several waypoints is not excluded.
C29_OnlyStaticProbesExclude ==
    (args.fn = "market_refresh" /\ result.kind = "market_refresh") =>
        (result.task.task <=> (SnapshotDue /\ ~StaticallyProbed /\ ~args.is_pure_exchange))

\* C29 (amended): a RefreshMarket task is emitted for a market whose snapshot is missing
\* or at least 15 minutes old unless the market is on the waypoint list of a Probe role
\* that has a ship, of one waypoint or several and wherever the probe is, or the market
\* is a pure exchange.
C29_ProbeRoutesExclude ==
    (args.fn = "market_refresh" /\ result.kind = "market_refresh") =>
        (result.task.task <=> (SnapshotDue /\ ~OnProbeRoute /\ ~args.is_pure_exchange))

\* no task for a market due for a refresh that is on the route of a probe going round
\* two markets
C29_Witness ==
    /\ args.fn = "market_refresh" /\ result.kind = "market_refresh"
    /\ SnapshotDue /\ ~args.is_pure_exchange
    /\ OnProbeRoute /\ ~StaticallyProbed
    /\ \E i \in 1..Len(args.cfg) : Len(args.cfg[i].waypoints) = 2
    /\ ~result.task.task

---------------------------------------------------------------------------
(* Claims about the task list (specification SpecTaskList)                  *)

\* C30: while the construction of the jump gate has an incomplete material and
\* no_gate_mode is off, the generated task list contains a construction delivery: a
\* TransportCargo task whose destination action is DeliverConstruction at the jump gate.
C30_ConstructionDeliveryTask ==
    (/\ result.kind = "generate_task_list"
     /\ ~args.no_gate_mode
     /\ \E good \in {"FAB_MATS", "ADVANCED_CIRCUITRY"} : Incomplete(args.construction, good))
        => \E i \in 1..Len(result.tasks) :
              /\ result.tasks[i].kind = "TransportCargo"
              /\ result.tasks[i].dest_action = "DeliverConstruction"
              /\ result.tasks[i].dest = "JG"

---------------------------------------------------------------------------
(* Claims about the exploration reservations (specification SpecReserve)    *)

\* no two ships hold the same value in a reservation map
Exclusive(m) == \A j, k \in DOMAIN m : (j # k /\ m[j] # None) => m[j] # m[k]

\* a step changes a ship's reservation only from none to a target free in the map
\* before the step, or from a target to none
ReservationSteps(m, n) ==
    \A k \in DOMAIN m :
        m[k] # n[k] =>
            \/ m[k] = None /\ n[k] \notin Reserved(m)
            \/ n[k] = None

\* C31: under concurrent get_probe_jumpgate_reservation and get_explorer_reservation
\* calls of different ships no two probes hold the same jump gate and no two explorers
\* the same system; a call of a ship that holds a reservation returns it, and it stays
\* until it is cleared; a gate is uncharted and unreserved in the step that reserves it.
C31_ExclusiveReservations ==
    [][rsv.status = "running" =>
         /\ Exclusive(rsv'.probe_jumpgate_reservations)
         /\ Exclusive(rsv'.explorer_reservations)
         /\ ReservationSteps(rsv.probe_jumpgate_reservations, rsv'.probe_jumpgate_reservations)
         /\ ReservationSteps(rsv.explorer_reservations, rsv'.explorer_reservations)
         /\ \A p \in Probes :
               /\ (rsv.probe_jumpgate_reservations[p] = None
                     /\ rsv'.probe_jumpgate_reservations[p] # None)
                    => rsv'.probe_jumpgate_reservations[p] \notin rsv.charted
               /\ (rsv.probe_jumpgate_reservations[p] # None
                     /\ rsv'.probe_jumpgate_reservations[p] = None)
                    => rsv'.robs.kind = "cleared"
         /\ rsv'.robs.kind = "existing" =>
               /\ rsv'.robs.ship \in Probes =>
                     rsv'.robs.value = rsv.probe_jumpgate_reservations[rsv'.robs.ship]
               /\ rsv'.robs.ship \in Explorers =>
                     rsv'.robs.value = rsv.explorer_reservations[rsv'.robs.ship]
               /\ rsv'.probe_jumpgate_reservations = rsv.probe_jumpgate_reservations
               /\ rsv'.explorer_reservations = rsv.explorer_reservations]_vars

\* both probes and both explorers hold reservations, the second probe's taken while the
\* first held the closest gate
C31_Witness ==
    /\ rsv.status = "running"
    /\ \A p \in Probes : rsv.probe_jumpgate_reservations[p] # None
    /\ \A e \in Explorers : rsv.explorer_reservations[e] # None
    /\ rsv.robs.kind = "reserved"
    /\ rsv.robs.ship = "P2"
    /\ rsv.robs.value = "G2"
    /\ rsv.probe_jumpgate_reservations["P1"] = "G1"

---------------------------------------------------------------------------
(* Claims about refresh_ship_config at startup (specification SpecRefresh)  *)

\* every assignment of the forward map names a role of the configuration and a ship
Live(ja) == \A r \in RoleIds : ja[r] # 0 => (r \in ConfigIds(ship_config) /\ ja[r] \in DOMAIN ships)

\* every assignment of the reverse map names a ship that exists and a role of the
\* configuration
LiveRev(rev) ==
    \A t \in ShipIds : rev[t] # None => (t \in DOMAIN ships /\ rev[t] \in ConfigIds(ship_config))

\* C32: after refresh_ship_config completes, every role assignment, in memory and
\* persisted, refers to a role of the regenerated configuration and to a ship of the
\* ships map; the stale ones are gone from the forward and from the reverse map.
C32_NoStaleAssignments ==
    obs.kind = "refreshed" =>
        /\ Live(job_assignments)
        /\ Live(db_assignments)
        /\ LiveRev(job_assignments_rev)
        /\ db_assignments = job_assignments

\* a refresh completed that had found an assignment of a role that is gone and one of a
\* ship that is gone
C32_Witness ==
    /\ obs.kind = "refreshed"
    /\ era = "StartingSystem1"
    /\ job_assignments["hauler2"] = 0 /\ job_assignments["hauler1"] # 0
    /\ 2 \notin DOMAIN ships /\ job_assignments["probe_w1"] = 0
    /\ 3 \notin DOMAIN ships /\ 4 \in DOMAIN ships

---------------------------------------------------------------------------
(* C33, C35: the two mutexes                                                *)

InBuyBody(c) == lk.pc[c] \in {"buy_body", "buy_end"}

InTakeBody(c) == lk.in_take_tasks[c]

\* C33: at most one caller is inside the body of try_buy_ships and at most one
\* inside the body of take_tasks, each of them the holder of the mutex, and a
\* caller that waited for a mutex enters the body as its holder or panics.
C33_MutuallyExclusiveOrFatal ==
    [][ /\ \A c \in LockCallers :
             /\ InBuyBody(c)' => lk'.try_buy_ships_mutex = c
             /\ InTakeBody(c)' => lk'.take_tasks_mutex = c
        /\ \A c \in LockCallers :
             /\ lk.pc[c] = "buy_wait" /\ lk'.pc[c] # "buy_wait"
                  => \/ lk'.pc[c] = "buy_body" /\ lk.try_buy_ships_mutex = None
                     \/ lk'.pc[c] = "panicked" /\ lk.try_buy_ships_mutex # None
             /\ lk.pc[c] = "take_wait" /\ lk'.pc[c] # "take_wait"
                  => \/ lk'.pc[c] = "take_body" /\ lk.take_tasks_mutex = None
                     \/ lk'.pc[c] = "panicked" /\ lk.take_tasks_mutex # None ]_vars

\* a caller has panicked at one mutex while another caller is inside that body,
\* and a waiter of each mutex got in
C33_Witness ==
    /\ lk.status = "running"
    /\ \E c, d \in LockCallers : lk.pc[c] = "panicked" /\ InBuyBody(d)
    /\ \E c, d \in Executors : lk.pc[c] = "take_wait" /\ InTakeBody(d)

HoldsBuy(c) == lk.try_buy_ships_mutex = c

HoldsTake(c) == lk.take_tasks_mutex = c

AtTakeLock(c) == lk.pc[c] \in {"take_call", "take_wait"}

AtBuyLock(c) == lk.pc[c] \in {"buy_call", "buy_wait"}

\* C35: the take_tasks mutex is always taken before the try_buy_ships mutex: no
\* caller asks for the take_tasks mutex while it holds the try_buy_ships mutex, so
\* no two callers ever wait for each other's mutex.
C35_TakeBeforeBuy ==
    /\ \A c \in LockCallers : AtTakeLock(c) => ~ HoldsBuy(c)
    /\ ~ \E c, d \in LockCallers :
           /\ HoldsBuy(c) /\ AtTakeLock(c)
           /\ HoldsTake(d) /\ AtBuyLock(d)

\* an executor inside take_tasks waits for the try_buy_ships mutex, which the
\* controller loop holds, while the other executor waits for the take_tasks mutex
C35_Witness ==
    /\ lk.status = "running"
    /\ \E c, d \in Executors :
           /\ HoldsTake(c) /\ lk.pc[c] = "buy_wait"
           /\ HoldsBuy("ctrl")
           /\ lk.pc[d] = "take_wait"

---------------------------------------------------------------------------
(* C34: the persisted schedule and its progress                             *)

\* the persisted progress of ship s counts executed actions of its persisted schedule
ProgressOfSchedule(s) ==
    db_progress[s] >= 0 =>
        /\ db_progress[s] <= Len(db_schedule[s].actions)
        /\ \A i \in 1..db_progress[s] : exec_count[s][i] >= 1

\* C34: whenever the process may crash, the persisted schedule and the persisted
\* progress of a ship are both absent or both present, and the progress counts
\* executed actions of the schedule that is persisted.
C34_PersistedPairConsistent ==
    \A s \in LogiShips :
        /\ db_schedule[s].some <=> db_progress[s] >= 0
        /\ ProgressOfSchedule(s)

\* after a crash no executor resumes a schedule at an index whose actions were not
\* executed, and none fails the assertion on the loaded pair
C34_NoStaleResume ==
    \A s \in LogiShips :
        /\ epc[s] = "check" /\ crashes > 0 /\ Len(sch[s]) > 0
             => \A i \in 1..idx[s] : exec_count[s][i] >= 1
        /\ ~ (eobs.kind = "load" /\ eobs.ship = s /\ epc[s] = "dead"
              /\ db_schedule[s].some # (db_progress[s] >= 0))

---------------------------------------------------------------------------
(* C36: every assigned ship gets an executor                                *)

\* C36: every ship that holds a role assignment eventually has a running
\* executor, also a ship that refresh_ship_config assigns after the startup.
C36_AssignedShipsGetExecutors ==
    \A s \in ShipIds :
        (s \in DOMAIN ships /\ job_assignments_rev[s] # None) ~> (spawned[s] >= 1)

\* the supervisor at rest: every assigned ship has its executor
C36_NoAssignedShipLeftOut ==
    (pc["agent"] = "a_done" /\ pc["ctrl"] = "c_tick" /\ pc["tm"] = "t_idle")
        => \A s \in DOMAIN ships : job_assignments_rev[s] # None => spawned[s] >= 1

---------------------------------------------------------------------------
(* C37: the era check and the standing reservations                         *)

\* C37: check_era_advance compares the available credits with the threshold only
\* on a ledger on which refresh_ship_config has made the standing reservations,
\* however the startup routine and the controller loop interleave.
C37_EraCheckAfterReservations ==
    obs.kind = "era_check" => ledger.fuel = FuelReservation

\* the era advances on credits that would not reach the threshold once the
\* standing reservations are made
C37_NoAdvanceOnUnreservedCredits ==
    (obs.kind = "era_check" /\ obs.before # era)
        => available_credits(RefreshLedgerOf(ledger, generate_ship_config(obs.before),
                                             job_assignments, ships, jumpgate_finished))
           >= EraThreshold

---------------------------------------------------------------------------
(* C38: the bought ship gets the role it was bought for                     *)

\* C38: whenever try_buy_ship has bought a ship for a role, the try_assign_ship
\* that follows succeeds and assigns the new ship to that role and to no other
\* unfilled role of the same model.
C38_BoughtShipGetsItsRole ==
    [][ \A p \in Procs :
          (pc[p] = "bassign" /\ pc'[p] # "bassign" /\ restarts' = restarts) =>
              /\ pc'[p] = "jobs"
              /\ job_assignments' =
                     [job_assignments EXCEPT ![ship_config[tb.job].id] = tb.new_ship]
              /\ job_assignments_rev'[tb.new_ship] = ship_config[tb.job].id ]_vars

\* a ship was bought for hauler1 and holds it while hauler2, of the same model, is
\* unfilled
C38_Witness ==
    \E p \in Procs :
        /\ pc[p] = "jobs" /\ lock = p
        /\ \E s \in tb.bought : job_assignments_rev[s] = "hauler1"
        /\ "hauler2" \in ConfigIds(ship_config)
        /\ job_assignments["hauler2"] = 0

---------------------------------------------------------------------------
(* C39: tasks in progress are eventually given back                         *)

\* C39: every task in in_progress_tasks is eventually removed, also when the
\* executor of the ship that holds it has stopped.
C39_InProgressEventuallyRemoved ==
    \A t \in TaskIds : (in_progress[t] # 0) ~> (in_progress[t] = 0)

\* no task is in progress for a ship whose executor has stopped while the other
\* executor is asking for tasks
C39_NoTaskHeldByStoppedExecutor ==
    \A t \in TaskIds : \A s, u \in LogiShips :
        ~ (in_progress[t] = s /\ epc[s] = "dead" /\ epc[u] = "tt_plan")

---------------------------------------------------------------------------
(* C40: the sequence numbers of the event log                               *)

EventsOf(s) == { e \in ep.events : e.entity_id = s }

StoredChanges(s) ==
    IF ep.current_state[s].some THEN ep.current_state[s].entity_seq_num ELSE 0

\* C40: after the messages are processed, also with a redelivery that follows a
\* crash, the sequence numbers of the stored events are 1..last_seq_num, each once,
\* and every entity has as many events as stored changes of its current state.
C40_ContiguousSequenceNumbers ==
    (ep.status = "running" /\ ep.pc = "recv" /\ ep.pos > Len(ep.queue)) =>
        /\ { e.seq_num : e \in ep.events } = 1..ep.event_logs
        /\ Cardinality(ep.events) = ep.event_logs
        /\ \A s \in EpShips : Cardinality(EventsOf(s)) = StoredChanges(s)

\* the same between any two messages of a processor that has never been restarted
C40_ContiguousWithoutCrash ==
    (ep.status = "running" /\ ep.pc = "recv" /\ ep.crashes = 0) =>
        /\ { e.seq_num : e \in ep.events } = 1..ep.event_logs
        /\ Cardinality(ep.events) = ep.event_logs
        /\ \A s \in EpShips : Cardinality(EventsOf(s)) = StoredChanges(s)

====
